---- MODULE Spec2Model ----
(***************************************************************************)
(* A model of acorntorrent's decoders: the metainfo decoder                *)
(* (src/src/metainfo.rs), the field helpers (src/src/util.rs) and the      *)
(* tracker response decoder (src/src/tracker.rs).                          *)
(*                                                                         *)
(* A bencode value is a tagged record: BInt, BStr (a sequence of bytes),   *)
(* BList (a sequence of values) or BDict (a function from key to value).   *)
(* A Rust String is the sequence of its UTF-8 bytes.  A Result is Ok(v),   *)
(* Err(message) or, where the code unwraps, Panic(message).                *)
(***************************************************************************)
EXTENDS Integers, Sequences, FiniteSets, TLC

VARIABLES mode,      \* which entry point this run exercises
          input,     \* the parsed top-level value handed to the decoder
          rest,      \* the bytes that follow the first top-level value
          pc,        \* position of the entry point
          result,    \* what the entry point returned
          info,      \* the BInfo value compute_hash is called on
          hashDict,  \* the dictionary compute_hash built and encoded
          idx,       \* tracker response: index of the pair next_pair yields next
          acc,       \* tracker response: the loop's local variables
          decoded,   \* tracker response: what decode_bencode_object returned
          derived,   \* what the derived-size functions of a BInfo returned
          torrent,   \* the BTorrent built from the decoded metainfo
          request    \* the announce request built for the torrent

vars == <<mode, input, rest, pc, result, info, hashDict, idx, acc, decoded, derived, torrent, request>>

-----------------------------------------------------------------------------
(* Values, options and results *)

BInt(n)  == [t |-> "int",   i |-> n]
BStr(s)  == [t |-> "bytes", b |-> s]
BList(l) == [t |-> "list",  l |-> l]
BDict(d) == [t |-> "dict",  d |-> d]
Absent   == [t |-> "absent"]

None    == [some |-> FALSE]
Some(x) == [some |-> TRUE, v |-> x]

Ok(x)    == [k |-> "ok",    v |-> x]
Err(m)   == [k |-> "err",   e |-> m, key |-> ""]
\* An error whose message names a field ("Missing field '{}'").
ErrKey(m, key) == [k |-> "err", e |-> m, key |-> key]
Panic(m) == [k |-> "panic", e |-> m]
NoResult == [k |-> "none"]

\* A dictionary from a function whose Absent entries stand for missing keys.
MkDict(f) == [key \in {x \in DOMAIN f : f[x] # Absent} |-> f[key]]

\* All sequences over S of length at most n.
SeqsUpTo(S, n) == UNION {[1..m -> S] : m \in 0..n}

-----------------------------------------------------------------------------
(* Strings as bytes *)

\* "utf-8"
StrUtf8Lower == <<117, 116, 102, 45, 56>>
\* "UTF-8"
StrUtf8Upper == <<85, 84, 70, 45, 56>>
\* "Utf-8"
StrUtf8Mixed == <<85, 116, 102, 45, 56>>
\* "ISO-8859-1"
StrIso == <<73, 83, 79, 45, 56, 56, 53, 57, 45, 49>>
\* "utf8"
StrUtf8NoDash == <<117, 116, 102, 56>>
\* "a", "b", "dir"
StrA == <<97>>
StrB == <<98>>
StrDir == <<100, 105, 114>>
\* "http://t/a", shortened to "t/a", and "t/b"
StrUrlA == <<116, 47, 97>>
StrUrlB == <<116, 47, 98>>
\* "é" (two bytes) and two byte strings that are not UTF-8
StrEAcute == <<195, 169>>
BadLone == <<255>>
BadTruncated == <<97, 195>>

\* Number of continuation bytes a UTF-8 lead byte announces; -1 for a byte
\* that cannot start a character.
Utf8Width(b) ==
    IF b < 128 THEN 0
    ELSE IF b >= 194 /\ b <= 223 THEN 1
    ELSE IF b >= 224 /\ b <= 239 THEN 2
    ELSE IF b >= 240 /\ b <= 244 THEN 3
    ELSE -1

\* The range allowed for the first continuation byte after lead byte b.
Utf8SecondOk(b, c) ==
    IF b = 224 THEN c >= 160 /\ c <= 191
    ELSE IF b = 237 THEN c >= 128 /\ c <= 159
    ELSE IF b = 240 THEN c >= 144 /\ c <= 191
    ELSE IF b = 244 THEN c >= 128 /\ c <= 143
    ELSE c >= 128 /\ c <= 191

RECURSIVE Utf8ValidFrom(_, _)
Utf8ValidFrom(s, p) ==
    IF p > Len(s) THEN TRUE
    ELSE LET w == Utf8Width(s[p]) IN
         IF w < 0 \/ p + w > Len(s) THEN FALSE
         ELSE /\ w >= 1 => Utf8SecondOk(s[p], s[p + 1])
              /\ \A j \in 2..w : s[p + j] >= 128 /\ s[p + j] <= 191
              /\ Utf8ValidFrom(s, p + w + 1)

\* str::from_utf8(s).is_ok()
IsUtf8(s) == Utf8ValidFrom(s, 1)

\* String::to_lowercase on the bytes of a string: ASCII capitals move to their
\* small letters; the non-ASCII characters of the inputs used here have no
\* capital form and stay.
LowerByte(b) == IF b >= 65 /\ b <= 90 THEN b + 32 ELSE b
to_lowercase(s) == [j \in 1..Len(s) |-> LowerByte(s[j])]

-----------------------------------------------------------------------------
(* src/src/util.rs *)

\* dict.get(key)
GetOrUnknown(dict, key) ==
    IF key \in DOMAIN dict THEN dict[key]
    ELSE IF "x-unknown" \in DOMAIN dict THEN dict["x-unknown"]
    ELSE Absent
Get(dict, key) == IF key \in DOMAIN dict THEN dict[key] ELSE Absent

get_utf8_value(dict, key) ==
    LET x == Get(dict, key) IN
    IF x.t = "bytes"
    THEN IF IsUtf8(x.b) THEN Ok(x.b)
         ELSE ErrKey("Field '{}' must be a valid UTF-8 string", key)
    ELSE IF x.t = "absent" THEN ErrKey("Missing field '{}'", key)
    ELSE ErrKey("Field '{}' must be a byte string", key)

get_optional_utf8_value_lenient(dict, key) ==
    LET x == Get(dict, key) IN
    IF x.t = "bytes" /\ IsUtf8(x.b) THEN Ok(Some(x.b)) ELSE Ok(None)
get_optional_utf8_value(dict, key) ==
    LET x == Get(dict, key) IN
    IF x.t = "bytes"
    THEN IF IsUtf8(x.b) THEN Ok(Some(x.b))
         ELSE ErrKey("Field '{}' must be a valid UTF-8 string", key)
    ELSE Ok(None)

-----------------------------------------------------------------------------
(* src/src/metainfo.rs: BFile and BInfo *)

\* The loop over a file's `path` list: the first element that is not a byte
\* string returns an error, the first one that is not UTF-8 panics (expect).
RECURSIVE PathLoop(_, _, _)
PathLoop(list, j, path_vec) ==
    IF j > Len(list) THEN Ok(path_vec)
    ELSE IF list[j].t = "bytes"
         THEN IF IsUtf8(list[j].b)
              THEN PathLoop(list, j + 1, Append(path_vec, list[j].b))
              ELSE Panic("Invalid UTF-8 in path")
         ELSE Err("field 'path' must be a list of strings")

BFile_from_bencode_dict(dict) ==
    LET l == Get(dict, "length")
        p == Get(dict, "path")
        path == IF p.t = "list" THEN PathLoop(p.l, 1, <<>>)
                ELSE IF p.t = "absent" THEN Err("missing field 'path'")
                ELSE Err("field 'path' must be a list")
    IN IF l.t = "absent" THEN Err("missing field 'length'")
       ELSE IF l.t # "int" THEN Err("field 'length' must be an integer")
       ELSE IF path.k # "ok" THEN path
       ELSE Ok([length |-> l.i, path |-> path.v])

\* The loop over the `files` list.
RECURSIVE FilesLoop(_, _, _)
FilesLoop(list, j, files_vec) ==
    IF j > Len(list) THEN Ok(Some(files_vec))
    ELSE IF list[j].t = "dict"
         THEN LET file == BFile_from_bencode_dict(list[j].d) IN
              IF file.k # "ok" THEN file
              ELSE FilesLoop(list, j + 1, Append(files_vec, file.v))
         ELSE Err("field 'files' must be list of dictionaries")

ConflictingFields == "Metainfo files must contain the field 'length' or 'files' (not both or none)"

\* The final check of BInfo::from_bencode_dict:
\* length.is_some() == files.is_some()
InfoExclusionOnlyBoth(length, files) == length.some /\ files.some
InfoExclusion(length, files) == length.some = files.some

\* Some(*val != 0)
PrivateFlagOnlyOne(val) == val = 1
PrivateFlag(val) == val # 0

BInfo_from_bencode_dict(dict) ==
    LET f == Get(dict, "files")
        files == IF f.t = "list" THEN FilesLoop(f.l, 1, <<>>)
                 ELSE IF f.t = "absent" THEN Ok(None)
                 ELSE Err("field 'files' must be a list")
        l == Get(dict, "length")
        length == IF l.t = "int" THEN Ok(Some(l.i))
                  ELSE IF l.t = "absent" THEN Ok(None)
                  ELSE Err("field 'length' must be an integer")
        name == get_utf8_value(dict, "name")
        ps == Get(dict, "piece length")
        piece_size == IF ps.t = "int" THEN Ok(ps.i)
                      ELSE IF ps.t = "absent" THEN Err("missing field 'piece length'")
                      ELSE Err("field 'piece length' must be an integer")
        pc_ == Get(dict, "pieces")
        pieces == IF pc_.t = "bytes" THEN Ok(pc_.b)
                  ELSE IF pc_.t = "absent" THEN Err("missing field 'pieces'")
                  ELSE Err("field 'pieces' must be a byte string")
        pr == Get(dict, "private")
        private == IF pr.t = "int" THEN Ok(Some(PrivateFlag(pr.i)))
                   ELSE IF pr.t = "absent" THEN Ok(None)
                   ELSE Err("field 'private' must be an integer")
        source == get_optional_utf8_value(dict, "source")
    IN IF files.k # "ok" THEN files
       ELSE IF length.k # "ok" THEN length
       ELSE IF name.k # "ok" THEN name
       ELSE IF piece_size.k # "ok" THEN piece_size
       ELSE IF pieces.k # "ok" THEN pieces
       ELSE IF private.k # "ok" THEN private
       ELSE IF source.k # "ok" THEN source
       ELSE IF InfoExclusion(length.v, files.v) THEN Err(ConflictingFields)
       ELSE Ok([files |-> files.v, length |-> length.v, name |-> name.v,
                piece_size |-> piece_size.v, pieces |-> pieces.v,
                private |-> private.v, source |-> source.v])

(* BInfo::compute_hash *)

\* One entry of the `files` list compute_hash builds.
HashFileDict(file) ==
    BDict([key \in {"length", "path"} |->
              IF key = "length" THEN BInt(file.length)
              ELSE BList([j \in 1..Len(file.path) |-> BStr(file.path[j])])])

\* "Add files or length (mutually exclusive)": the keys the if / else-if
\* inserts.
HashFilesOrLengthBoth(i) ==
    (IF i.files.some THEN {"files"} ELSE {})
    \cup (IF i.length.some THEN {"length"} ELSE {})
HashFilesOrLength(i) ==
    IF i.files.some THEN {"files"}
    ELSE IF i.length.some THEN {"length"}
    ELSE {}

\* The keys of info_dict when it is encoded.
HashKeys(i) ==
    HashFilesOrLength(i) \cup {"name", "piece length", "pieces"}
    \cup (IF i.private.some THEN {"private"} ELSE {})
    \cup (IF i.source.some THEN {"source"} ELSE {})

\* info_dict, a BTreeMap: a function from its keys.
HashInfoDict(i) ==
    [key \in HashKeys(i) |->
        CASE key = "files" ->
                BList([j \in 1..Len(i.files.v) |-> HashFileDict(i.files.v[j])])
          [] key = "length" -> BInt(i.length.v)
          [] key = "name" -> BStr(i.name)
          [] key = "piece length" -> BInt(i.piece_size)
          [] key = "pieces" -> BStr(i.pieces)
          [] key = "private" -> BInt(IF i.private.v THEN 1 ELSE 0)
          [] key = "source" -> BStr(i.source.v)]

(* The canonical encoding compute_hash hashes: encoder::encode_to_bytes.    *)

\* The bytes of the keys of info_dict and file_dict.
KeyBytes(key) ==
    CASE key = "files" -> <<102, 105, 108, 101, 115>>
      [] key = "length" -> <<108, 101, 110, 103, 116, 104>>
      [] key = "name" -> <<110, 97, 109, 101>>
      [] key = "path" -> <<112, 97, 116, 104>>
      [] key = "piece length" ->
            <<112, 105, 101, 99, 101, 32, 108, 101, 110, 103, 116, 104>>
      [] key = "pieces" -> <<112, 105, 101, 99, 101, 115>>
      [] key = "private" -> <<112, 114, 105, 118, 97, 116, 101>>
      [] key = "source" -> <<115, 111, 117, 114, 99, 101>>

\* The keys a BTreeMap iterates over, in order: the byte order of the keys.
HashKeyOrder == <<"files", "length", "name", "path", "piece length", "pieces",
                  "private", "source">>

\* The decimal digits of a natural number, and the text of an integer.
RECURSIVE Digits(_)
Digits(n) == IF n < 10 THEN <<48 + n>> ELSE Append(Digits(n \div 10), 48 + (n % 10))
IntText(n) == IF n < 0 THEN <<45>> \o Digits(-n) ELSE Digits(n)

RECURSIVE Encode(_)
RECURSIVE EncodeList(_, _)
RECURSIVE EncodeDict(_, _)
Encode(v) ==
    CASE v.t = "int" -> <<105>> \o IntText(v.i) \o <<101>>
      [] v.t = "bytes" -> Digits(Len(v.b)) \o <<58>> \o v.b
      [] v.t = "list" -> <<108>> \o EncodeList(v.l, 1) \o <<101>>
      [] v.t = "dict" -> <<100>> \o EncodeDict(v.d, 1) \o <<101>>
EncodeList(l, j) ==
    IF j > Len(l) THEN <<>> ELSE Encode(l[j]) \o EncodeList(l, j + 1)
EncodeDict(d, j) ==
    IF j > Len(HashKeyOrder) THEN <<>>
    ELSE LET key == HashKeyOrder[j] IN
         (IF key \in DOMAIN d
          THEN Encode(BStr(KeyBytes(key))) \o Encode(d[key])
          ELSE <<>>) \o EncodeDict(d, j + 1)

\* The SHA-1 digests of the encodings of the three Info values a torrent is
\* built from here:
\*   d6:lengthi350e4:name1:a12:piece lengthi16384e6:pieces40:<1..40>e
\*   d5:filesld6:lengthi100e4:pathl1:aeed6:lengthi250e4:pathl3:dir1:beee
\*     4:name3:dir12:piece lengthi16384e6:pieces40:<1..40>7:privatei1ee
\*   d6:lengthi350e4:name2:<c3 a9>12:piece lengthi16384e6:pieces40:<1..40>
\*     7:privatei0e6:source1:be
BytesOneTo40 == [j \in 1..40 |-> j]
EncUpToPieces ==
    <<49, 50, 58, 112, 105, 101, 99, 101, 32, 108, 101, 110, 103, 116, 104,
      105, 49, 54, 51, 56, 52, 101,
      54, 58, 112, 105, 101, 99, 101, 115, 52, 48, 58>> \o BytesOneTo40
EncodedSingle ==
    <<100, 54, 58, 108, 101, 110, 103, 116, 104, 105, 51, 53, 48, 101,
      52, 58, 110, 97, 109, 101, 49, 58, 97>> \o EncUpToPieces \o <<101>>
EncodedMulti ==
    <<100, 53, 58, 102, 105, 108, 101, 115, 108,
      100, 54, 58, 108, 101, 110, 103, 116, 104, 105, 49, 48, 48, 101,
      52, 58, 112, 97, 116, 104, 108, 49, 58, 97, 101, 101,
      100, 54, 58, 108, 101, 110, 103, 116, 104, 105, 50, 53, 48, 101,
      52, 58, 112, 97, 116, 104, 108, 51, 58, 100, 105, 114, 49, 58, 98, 101, 101,
      101, 52, 58, 110, 97, 109, 101, 51, 58, 100, 105, 114>>
    \o EncUpToPieces
    \o <<55, 58, 112, 114, 105, 118, 97, 116, 101, 105, 49, 101, 101>>
EncodedSourced ==
    <<100, 54, 58, 108, 101, 110, 103, 116, 104, 105, 51, 53, 48, 101,
      52, 58, 110, 97, 109, 101, 50, 58, 195, 169>> \o EncUpToPieces
    \o <<55, 58, 112, 114, 105, 118, 97, 116, 101, 105, 48, 101,
         54, 58, 115, 111, 117, 114, 99, 101, 49, 58, 98, 101>>

\* digest::digest(&digest::SHA1_FOR_LEGACY_USE_ONLY, &encoded)
Sha1(encoded) ==
    CASE encoded = EncodedSingle ->
            <<254, 71, 110, 231, 138, 16, 1, 109, 223, 250,
              121, 144, 91, 206, 157, 251, 50, 8, 190, 114>>
      [] encoded = EncodedMulti ->
            <<199, 97, 100, 219, 27, 191, 216, 134, 44, 101,
              222, 191, 104, 64, 135, 220, 15, 145, 225, 112>>
      [] encoded = EncodedSourced ->
            <<96, 107, 61, 169, 152, 96, 196, 171, 53, 99,
              167, 182, 151, 172, 91, 112, 62, 127, 203, 99>>

\* BInfo::compute_hash: the digest of the encoded info_dict.
compute_hash(i) == Ok(Sha1(Encode(BDict(HashInfoDict(i)))))

(* BInfo's derived sizes.  An isize has 64 bits, more than a TLC integer     *)
(* holds, so an integer is kept as three parts h, m, l that stand            *)
(* for h * 2^48 + m * 2^24 + l with 0 <= m, l < 2^24; every integer has      *)
(* exactly one such form, and an isize is an integer with -2^15 <= h < 2^15. *)

WBase == 4096 * 4096
IsizeTop == 128 * 256

WNorm(h, m, l) ==
    LET m1 == m + (l \div WBase) IN
    [h |-> h + (m1 \div WBase), m |-> m1 % WBase, l |-> l % WBase]
WOf(n) == WNorm(0, 0, n)
WAdd(a, b) == WNorm(a.h + b.h, a.m + b.m, a.l + b.l)
\* a * n for a number n of at most two digits.
WTimes(a, n) == WNorm(a.h * n, a.m * n, a.l * n)

IsizeMax == [h |-> IsizeTop - 1, m |-> WBase - 1, l |-> WBase - 1]
IsizeFits(a) == a.h >= -IsizeTop /\ a.h < IsizeTop
IsizeWrap(a) == [a EXCEPT !.h = ((a.h + IsizeTop) % (2 * IsizeTop)) - IsizeTop]

\* The outcome of an isize operation whose exact value is a: with overflow
\* checks (a debug build) an overflow panics, without them (a release build)
\* the value wraps.
IsizeResult(a, overflow_checks, what) ==
    IF IsizeFits(a) THEN Ok(a)
    ELSE IF overflow_checks THEN Panic(what)
    ELSE Ok(IsizeWrap(a))

\* self.pieces.len() as isize / 20: a count of a few pieces, a plain number.
total_piece_count(i) == Len(i.pieces) \div 20

\* self.piece_size * self.total_piece_count()
total_piece_size_bytes(i, overflow_checks) ==
    IsizeResult(WTimes(i.piece_size, total_piece_count(i)), overflow_checks,
                "attempt to multiply with overflow")

\* files.iter().map(|f| f.length).sum(): the lengths are added one by one
\* from 0.
RECURSIVE SumLoop(_, _, _, _)
SumLoop(files, j, sum, overflow_checks) ==
    IF j > Len(files) THEN Ok(sum)
    ELSE LET r == IsizeResult(WAdd(sum, files[j].length), overflow_checks,
                              "attempt to add with overflow")
         IN IF r.k # "ok" THEN r
            ELSE SumLoop(files, j + 1, r.v, overflow_checks)

metainfo_total_size_bytes(i, overflow_checks) ==
    IF i.files.some THEN SumLoop(i.files.v, 1, WOf(0), overflow_checks)
    ELSE IF i.length.some THEN Ok(i.length.v)
    ELSE Ok(WOf(0))

DerivedNone == [count |-> NoResult, size |-> NoResult, total |-> NoResult]

-----------------------------------------------------------------------------
(* src/src/metainfo.rs: BMetainfo *)

\* The loop over one tier of announce-list.
RECURSIVE TierLoop(_, _, _)
TierLoop(list, j, announce_tier) ==
    IF j > Len(list) THEN Ok(announce_tier)
    ELSE IF list[j].t = "bytes"
         THEN IF IsUtf8(list[j].b)
              THEN TierLoop(list, j + 1, Append(announce_tier, list[j].b))
              ELSE Panic("Invalid UTF-8 in announce-list")
         ELSE Err("Invalid type in announce-list")

\* The loop over the tiers of announce-list.
RECURSIVE TiersLoop(_, _, _)
TiersLoop(list, j, announce_tiers) ==
    IF j > Len(list) THEN Ok(Some(announce_tiers))
    ELSE IF list[j].t = "list"
         THEN LET tier == TierLoop(list[j].l, 1, <<>>) IN
              IF tier.k # "ok" THEN tier
              ELSE TiersLoop(list, j + 1, Append(announce_tiers, tier.v))
         ELSE Err("Invalid item in announce-list")

BMetainfo_from_bencode_value_anounce_list(dict) ==
    LET x == Get(dict, "announce-list") IN
    IF x.t = "list" THEN TiersLoop(x.l, 1, <<>>)
    ELSE IF x.t = "absent" THEN Ok(None)
    ELSE Err("announce-list must be a list")

UnsupportedEncoding == "only UTF-8 encoding is supported; encountered encoding '{}' instead"

\* e.to_lowercase() != "utf-8"
EncodingRejectedExact(e) == e # StrUtf8Lower
EncodingRejected(e) == to_lowercase(e) # StrUtf8Lower

\* The match on get_optional_utf8_value(dict, b"encoding"): Ok(Some(e)) is
\* checked, every other outcome (Ok(None) and Err alike) becomes None.
MetainfoEncoding(dict) ==
    LET r == get_optional_utf8_value(dict, "encoding") IN
    IF r.k = "ok" /\ r.v.some
    THEN IF EncodingRejected(r.v.v) THEN Err(UnsupportedEncoding)
         ELSE Ok(Some(r.v.v))
    ELSE Ok(None)

BMetainfo_from_bencode_value(value) ==
    IF value.t # "dict" THEN Err("Metainfo must be a dictionary")
    ELSE
    LET dict == value.d
        announce == get_utf8_value(dict, "announce")
        announce_list == BMetainfo_from_bencode_value_anounce_list(dict)
        comment == get_optional_utf8_value(dict, "comment")
        created_by == get_optional_utf8_value(dict, "created by")
        cd == Get(dict, "creation date")
        created_on == IF cd.t = "int" THEN Ok(Some(cd.i))
                      ELSE IF cd.t = "absent" THEN Ok(None)
                      ELSE Err("field 'creation date' must be an integer")
        encoding == MetainfoEncoding(dict)
        inf == Get(dict, "info")
        info_ == IF inf.t = "dict" THEN BInfo_from_bencode_dict(inf.d)
                 ELSE IF inf.t = "absent" THEN Err("missing field 'info'")
                 ELSE Err("field 'info' must be a dictionary")
    IN IF announce.k # "ok" THEN announce
       ELSE IF announce_list.k # "ok" THEN announce_list
       ELSE IF comment.k # "ok" THEN comment
       ELSE IF created_by.k # "ok" THEN created_by
       ELSE IF created_on.k # "ok" THEN created_on
       ELSE IF encoding.k # "ok" THEN encoding
       ELSE IF info_.k # "ok" THEN info_
       ELSE Ok([announce |-> announce.v, announce_list |-> announce_list.v,
                comment |-> comment.v, created_by |-> created_by.v,
                created_on |-> created_on.v, encoding |-> encoding.v,
                info |-> info_.v])

TrailingMetainfo == "Erroneous data at the end of the metainfo file"

\* !remaining.is_empty()
MetainfoHasTrailingNever(remaining) == FALSE
MetainfoHasTrailing(remaining) == remaining # <<>>

\* BMetainfo::from_bytes on bytes that parse_bencode splits into `parsed`
\* (the first value, or a parse failure) and the `remaining` bytes.
BMetainfo_from_bytes(parsed, remaining) ==
    IF parsed.t = "unparsable" THEN Err("Failed to parse bencode")
    ELSE IF MetainfoHasTrailing(remaining) THEN Err(TrailingMetainfo)
    ELSE BMetainfo_from_bencode_value(parsed)

-----------------------------------------------------------------------------
(* src/src/torrent.rs *)

\* percent_encoding::NON_ALPHANUMERIC leaves the ASCII letters and digits.
IsAsciiAlphanumeric(b) ==
    \/ b >= 48 /\ b <= 57
    \/ b >= 65 /\ b <= 90
    \/ b >= 97 /\ b <= 122

\* A digit of "%XX".
HexDigitLower(n) == IF n < 10 THEN 48 + n ELSE 97 + (n - 10)
HexDigit(n) == IF n < 10 THEN 48 + n ELSE 65 + (n - 10)

\* percent_encoding::percent_encode(bytes, NON_ALPHANUMERIC).to_string()
RECURSIVE percent_encode(_)
percent_encode(bytes) ==
    IF bytes = <<>> THEN <<>>
    ELSE LET b == Head(bytes) IN
         (IF IsAsciiAlphanumeric(b) THEN <<b>>
          ELSE <<37, HexDigit(b \div 16), HexDigit(b % 16)>>)
         \o percent_encode(Tail(bytes))

\* BTorrent::new, with the 20 bytes the random generator gave.
BTorrent_new(metainfo, random) ==
    LET info_hash == compute_hash(metainfo.info) IN
    IF info_hash.k # "ok" THEN info_hash
    ELSE Ok([metainfo |-> metainfo,
             info_hash |-> info_hash.v,
             encoded_info_hash |-> percent_encode(info_hash.v),
             peer_id |-> random,
             encoded_peer_id |-> percent_encode(random),
             uploaded |-> 0,
             downloaded |-> 0,
             left |-> 0])

-----------------------------------------------------------------------------
(* src/src/tracker.rs: announce *)

\* The texts of the request.
StrQInfoHash == <<63, 105, 110, 102, 111, 95, 104, 97, 115, 104, 61>>        \* "?info_hash="
StrPeerIdEq == <<112, 101, 101, 114, 95, 105, 100, 61>>                \* "peer_id="
StrInfoHash == <<105, 110, 102, 111, 95, 104, 97, 115, 104>>           \* "info_hash"
StrPeerId == <<112, 101, 101, 114, 95, 105, 100>>                        \* "peer_id"
StrPort == <<112, 111, 114, 116>>                                   \* "port"
StrUploaded == <<117, 112, 108, 111, 97, 100, 101, 100>>         \* "uploaded"
StrDownloaded == <<100, 111, 119, 110, 108, 111, 97, 100, 101, 100>> \* "downloaded"
StrLeft == <<108, 101, 102, 116>>                                   \* "left"
StrIp == <<105, 112>>                                               \* "ip"
StrEvent == <<101, 118, 101, 110, 116>>                                \* "event"
StrStarted == <<115, 116, 97, 114, 116, 101, 100>>                    \* "started"
StrCompleted == <<99, 111, 109, 112, 108, 101, 116, 101, 100>>         \* "completed"
StrStopped == <<115, 116, 111, 112, 112, 101, 100>>                   \* "stopped"
StrHost == <<49, 48, 46, 48, 46, 48, 46, 49>>                       \* "10.0.0.1"

\* The match on the event.
EventText(event) ==
    CASE event = "Started" -> StrStarted
      [] event = "Completed" -> StrCompleted
      [] event = "Stopped" -> StrStopped

\* format!("{}?info_hash={}peer_id={}", announce, encoded_info_hash,
\*         encoded_peer_id)
AnnounceUrl(t) ==
    t.metainfo.announce \o StrQInfoHash \o t.encoded_info_hash
    \o StrPeerIdEq \o t.encoded_peer_id

\* u64::to_string and u16::to_string
to_string(n) == Digits(n)

\* The form encoding RequestBuilder::query gives a key or a value: letters,
\* digits and * - . _ stay, a space becomes +, any other byte %XX.
RECURSIVE FormEncode(_)
FormEncode(bytes) ==
    IF bytes = <<>> THEN <<>>
    ELSE LET b == Head(bytes) IN
         (IF IsAsciiAlphanumeric(b) \/ b \in {42, 45, 46, 95} THEN <<b>>
          ELSE IF b = 32 THEN <<43>>
          ELSE <<37, HexDigit(b \div 16), HexDigit(b % 16)>>)
         \o FormEncode(Tail(bytes))

\* RequestBuilder::query(&[(k1, v1), ...]): each pair is appended to the
\* query of the url, which already has one here, as "&k=v".
RECURSIVE QueryAppend(_, _, _)
QueryAppend(url, pairs, j) ==
    IF j > Len(pairs) THEN url
    ELSE QueryAppend(url \o <<38>> \o FormEncode(pairs[j][1]) \o <<61>>
                         \o FormEncode(pairs[j][2]),
                     pairs, j + 1)

\* The url after the first call of query.
AnnounceQuery(t, port) ==
    QueryAppend(AnnounceUrl(t),
                <<<<StrInfoHash, t.encoded_info_hash>>,
                  <<StrPort, to_string(port)>>,
                  <<StrUploaded, to_string(t.uploaded)>>,
                  <<StrDownloaded, to_string(t.downloaded)>>,
                  <<StrLeft, to_string(t.left)>>>>, 1)

BuilderError == "builder error: unsupported pair"

-----------------------------------------------------------------------------
(* src/src/tracker.rs: the compact peer lists *)

CompactV4Len == 6
CompactV6Len == 18
U16Max == 65535

Peer(ip, peer_id, port) == [ip |-> ip, peer_id |-> peer_id, port |-> port]
IpV4(a) == [fam |-> "v4", a |-> a]
IpV6(a) == [fam |-> "v6", a |-> a]

\* u16::from_be_bytes([hi, lo])
U16FromLeBytes(hi, lo) == lo * 256 + hi
U16FromBeBytes(hi, lo) == hi * 256 + lo

\* bytes.len() % 6 != 0
CompactV4BadLenNever(n) == FALSE
CompactV4BadLen(n) == n % CompactV4Len # 0

\* bytes.len() % 18 != 0
CompactV6BadLen(n) == n % CompactV6Len # 0

\* The n-th chunk of bytes.chunks(size); the last one may be short.
Chunk(bytes, size, n) ==
    SubSeq(bytes, size * (n - 1) + 1,
           IF size * n <= Len(bytes) THEN size * n ELSE Len(bytes))
ChunkCount(bytes, size) == (Len(bytes) + size - 1) \div size

BadCompactV4 == "incomplete compact ipv4 peers list (length is not divisible by 6)"
BadCompactV6 == "incomplete compact ipv4 peers list (length is not divisible by 18)"

\* &i[0..4], &i[4..6] and &i[0..16], &i[16..18] panic on a chunk that is too
\* short, which the length check rules out.
ShortChunk(bytes, size) == Len(bytes) % size # 0

parse_compact_ipv4_peer_list(bytes) ==
    IF CompactV4BadLen(Len(bytes)) THEN Err(BadCompactV4)
    ELSE IF ShortChunk(bytes, CompactV4Len) THEN Panic("range end index out of range")
    ELSE Ok([n \in 1..ChunkCount(bytes, CompactV4Len) |->
                LET c == Chunk(bytes, CompactV4Len, n) IN
                Peer(IpV4(SubSeq(c, 1, 4)), <<>>, U16FromBeBytes(c[5], c[6]))])

parse_compact_ipv6_peer_list(bytes) ==
    IF CompactV6BadLen(Len(bytes)) THEN Err(BadCompactV6)
    ELSE IF ShortChunk(bytes, CompactV6Len) THEN Panic("range end index out of range")
    ELSE Ok([n \in 1..ChunkCount(bytes, CompactV6Len) |->
                LET c == Chunk(bytes, CompactV6Len, n) IN
                Peer(IpV6(SubSeq(c, 1, 16)), <<>>, U16FromBeBytes(c[17], c[18]))])

-----------------------------------------------------------------------------
(* src/src/tracker.rs: explicit peers.  A dictionary object is the sequence *)
(* of (key, value) pairs its decoder yields, in the order it yields them.   *)

BPairs(p) == [t |-> "dict", p |-> p]
Pair(key, val) == [key |-> key, val |-> val]

\* "127.0.0.1", "127.0.0.2", "::1", "nope"
StrIp1 == <<49, 50, 55, 46, 48, 46, 48, 46, 49>>
StrIp2 == <<49, 50, 55, 46, 48, 46, 48, 46, 50>>
StrIp6 == <<58, 58, 49>>
StrNoIp == <<110, 111, 112, 101>>
\* A 20-byte peer id is shortened to "AB" and "BC".
StrIdA == <<65, 66>>
StrIdB == <<66, 67>>

\* ip_string.parse::<IpAddr>(), on the address strings of the inputs.
IpParse(str) ==
    IF str = StrIp1 THEN Ok(IpV4(<<127, 0, 0, 1>>))
    ELSE IF str = StrIp2 THEN Ok(IpV4(<<127, 0, 0, 2>>))
    ELSE IF str = StrIp6
         THEN Ok(IpV6(<<0, 0, 0, 0, 0, 0, 0, 0, 0, 0, 0, 0, 0, 0, 0, 1>>))
    ELSE Err("invalid ip address")

\* String::decode_bencode_object(val).context(ctx)
DecodeString(val, ctx) ==
    IF val.t # "bytes" THEN ErrKey("unexpected token", ctx)
    ELSE IF IsUtf8(val.b) THEN Ok(val.b)
    ELSE ErrKey("malformed content: invalid utf-8", ctx)

NumberOutOfRange == "malformed content: number out of range"

\* u16::decode_bencode_object(val).context(ctx): the integer's text parsed as
\* a u16.
DecodeU16Truncating(val, ctx) ==
    IF val.t # "int" THEN ErrKey("unexpected token", ctx)
    ELSE Ok(val.i % (U16Max + 1))
DecodeU16(val, ctx) ==
    IF val.t # "int" THEN ErrKey("unexpected token", ctx)
    ELSE IF val.i >= 0 /\ val.i <= U16Max THEN Ok(val.i)
    ELSE ErrKey(NumberOutOfRange, ctx)

\* u64::decode_bencode_object(val).context(ctx); the integers of the inputs
\* are far below 2^64, so only the sign can put one out of range.
DecodeU64(val, ctx) ==
    IF val.t # "int" THEN ErrKey("unexpected token", ctx)
    ELSE IF val.i >= 0 THEN Ok(val.i)
    ELSE ErrKey(NumberOutOfRange, ctx)

\* AsString::decode_bencode_object(val).context(ctx).map(|b| b.0)
DecodeAsString(val, ctx) ==
    IF val.t # "bytes" THEN ErrKey("unexpected token", ctx)
    ELSE Ok(val.b)

\* DecodingError::unexpected_field(String::from_utf8_lossy(key)): the last arm,
\* (key, _), of the match of both decoders of this file.
UnexpectedFieldAsMissing(key) == ErrKey("missing field", key)
UnexpectedField(key) == ErrKey("unexpected field", key)

PeerAcc0 == [ip |-> None, peer_id |-> None, port |-> None]

\* The while-let loop of BPeer::decode_bencode_object and what follows it.
RECURSIVE PeerLoop(_, _, _)
PeerLoop(ps, j, a) ==
    IF j > Len(ps)
    THEN IF ~a.ip.some THEN ErrKey("missing field", "ip")
         ELSE IF ~a.peer_id.some THEN ErrKey("missing field", "peer_id")
         ELSE IF ~a.port.some THEN ErrKey("missing field", "port")
         ELSE Ok(Peer(a.ip.v, a.peer_id.v, a.port.v))
    ELSE LET key == ps[j].key
             val == ps[j].val
         IN
         IF key = "ip"
         THEN LET str == DecodeString(val, "ip") IN
              IF str.k # "ok" THEN str
              ELSE LET ip == IpParse(str.v) IN
                   IF ip.k # "ok" THEN ip
                   ELSE PeerLoop(ps, j + 1, [a EXCEPT !.ip = Some(ip.v)])
         ELSE IF key = "peer id"
         THEN LET str == DecodeString(val, "peer id") IN
              IF str.k # "ok" THEN str
              ELSE PeerLoop(ps, j + 1, [a EXCEPT !.peer_id = Some(str.v)])
         ELSE IF key = "port"
         THEN LET n == DecodeU16(val, "port") IN
              IF n.k # "ok" THEN n
              ELSE PeerLoop(ps, j + 1, [a EXCEPT !.port = Some(n.v)])
         ELSE UnexpectedField(key)

BPeer_decode_bencode_object(object) ==
    IF object.t # "dict" THEN Err("unexpected token")
    ELSE PeerLoop(object.p, 1, PeerAcc0)

\* Vec::<BPeer>::decode_bencode_object(val).context("peers"): the elements in
\* order, stopping at the first that fails.
RECURSIVE PeerListLoop(_, _, _)
PeerListLoop(list, j, out) ==
    IF j > Len(list) THEN Ok(out)
    ELSE LET peer == BPeer_decode_bencode_object(list[j]) IN
         IF peer.k # "ok" THEN peer
         ELSE PeerListLoop(list, j + 1, Append(out, peer.v))

-----------------------------------------------------------------------------
(* src/src/tracker.rs: BTrackerResponse *)

TrackerAcc0 == [peers |-> None, peers6 |-> None, interval |-> None,
                complete |-> None, incomplete |-> None]

PeersTypeMismatch == "peers key must be either a dictionary or a list"

\* The first arm of the match on the `peers` value: Object::List(_)
PeersIsListNever(val) == FALSE
PeersIsList(val) == val.t = "list"

\* One turn of the while-let loop of BTrackerResponse::decode_bencode_object
\* on the pair (key, val) with the locals a: Ok(the locals after it) or the
\* error it returns.
TrackerPair(a, key, val) ==
    IF key = "peers"
    THEN IF PeersIsList(val)
         THEN LET r == PeerListLoop(val.l, 1, <<>>) IN
              IF r.k # "ok" THEN r ELSE Ok([a EXCEPT !.peers = Some(r.v)])
         ELSE IF val.t = "bytes"
         THEN LET r == parse_compact_ipv4_peer_list(val.b) IN
              IF r.k # "ok" THEN r ELSE Ok([a EXCEPT !.peers = Some(r.v)])
         ELSE Err(PeersTypeMismatch)
    ELSE IF key = "peers6"
    THEN LET b == DecodeAsString(val, "peers6") IN
         IF b.k # "ok" THEN b
         ELSE LET r == parse_compact_ipv6_peer_list(b.v) IN
              IF r.k # "ok" THEN r ELSE Ok([a EXCEPT !.peers6 = Some(r.v)])
    ELSE IF key = "interval"
    THEN LET n == DecodeU64(val, "interval") IN
         IF n.k # "ok" THEN n ELSE Ok([a EXCEPT !.interval = Some(n.v)])
    ELSE IF key = "complete"
    THEN LET n == DecodeU64(val, "complete") IN
         IF n.k # "ok" THEN n ELSE Ok([a EXCEPT !.complete = Some(n.v)])
    ELSE IF key = "incomplete"
    THEN LET n == DecodeU64(val, "incomplete") IN
         IF n.k # "ok" THEN n ELSE Ok([a EXCEPT !.incomplete = Some(n.v)])
    ELSE UnexpectedField(key)

\* "Merge the Ipv6 peer list with the Ipv4 peer list": peers.append(&mut peers6)
MergePeersV6First(peers, peers6) ==
    IF peers6.some THEN peers6.v \o peers ELSE peers
MergePeers(peers, peers6) ==
    IF peers6.some THEN peers \o peers6.v ELSE peers

\* What follows the loop of BTrackerResponse::decode_bencode_object.
TrackerAfterLoopPeers6Suffices(a) ==
    IF ~a.peers.some /\ ~a.peers6.some THEN ErrKey("missing field", "peers")
    ELSE IF ~a.interval.some THEN ErrKey("missing field", "interval")
    ELSE Ok([peers |-> MergePeers(IF a.peers.some THEN a.peers.v ELSE <<>>, a.peers6),
             interval |-> a.interval.v,
             complete |-> a.complete,
             incomplete |-> a.incomplete])
TrackerAfterLoop(a) ==
    IF ~a.peers.some THEN ErrKey("missing field", "peers")
    ELSE IF ~a.interval.some THEN ErrKey("missing field", "interval")
    ELSE Ok([peers |-> MergePeers(a.peers.v, a.peers6),
             interval |-> a.interval.v,
             complete |-> a.complete,
             incomplete |-> a.incomplete])

\* The second decoder.next_object() of BTrackerResponse::from_bytes reads one
\* token at the top level of `rest`.  Integer text is scanned by the states
\* start, sign, zero, digits up to the terminator.
IsDigit(b) == b >= 48 /\ b <= 57

\* The position of the terminator that ends the integer starting at p, or 0
\* when the text is malformed or ends first.
RECURSIVE TakeInt(_, _, _, _)
TakeInt(s, p, state, term) ==
    IF p > Len(s) THEN 0
    ELSE LET c == s[p] IN
         CASE state = "start" ->
                 IF c = 45 THEN TakeInt(s, p + 1, "sign", term)
                 ELSE IF c = 48 THEN TakeInt(s, p + 1, "zero", term)
                 ELSE IF IsDigit(c) THEN TakeInt(s, p + 1, "digits", term)
                 ELSE 0
           [] state = "zero" -> IF c = term THEN p ELSE 0
           [] state = "sign" ->
                 IF IsDigit(c) /\ c # 48 THEN TakeInt(s, p + 1, "digits", term)
                 ELSE 0
           [] state = "digits" ->
                 IF IsDigit(c) THEN TakeInt(s, p + 1, "digits", term)
                 ELSE IF c = term THEN p
                 ELSE 0

\* The value of the decimal digits s[p..q].
RECURSIVE Decimal(_, _, _)
Decimal(s, p, q) ==
    IF q < p THEN 0 ELSE Decimal(s, p, q - 1) * 10 + (s[q] - 48)

\* "none" at the end of the input, "some" when a token is read and an object
\* returned, "err" when the decoder fails.
NextObject(s) ==
    IF s = <<>> THEN "none"
    ELSE IF s[1] = 108 \/ s[1] = 100 THEN "some"
    ELSE IF s[1] = 105
         THEN IF TakeInt(s, 2, "start", 101) > 0 THEN "some" ELSE "err"
    ELSE IF IsDigit(s[1])
         THEN LET q == TakeInt(s, 1, "start", 58) IN
              IF q > 0 /\ q + Decimal(s, 1, q - 1) <= Len(s) THEN "some"
              ELSE "err"
    ELSE "err"

TrailingTracker == "Erroneous data at the end of the tracker response."
UnsortedKeys == "unsorted keys"

\* The keys of the responses in byte order.
TrackerKeyOrder == <<"complete", "incomplete", "interval", "peers", "peers6", "x-unknown">>
KeyRank(key) == CHOOSE j \in 1..Len(TrackerKeyOrder) : TrackerKeyOrder[j] = key

\* The pair next_pair is about to yield has a key that sorts before the one
\* it yielded last.  A decoder that insists on sorted keys fails there, one
\* that does not yields the pair: next_pair may do either.
OutOfOrder(ps, j) == j > 1 /\ KeyRank(ps[j].key) < KeyRank(ps[j - 1].key)

\* The end of BTrackerResponse::from_bytes: "Ensure we've hit EOF".  An error
\* of the decoder itself stays with it, and next_object returns it again.
TrackerEnsureEof(tracker_response, remaining) ==
    LET n == IF tracker_response.k = "err" /\ tracker_response.e = UnsortedKeys
             THEN "err" ELSE NextObject(remaining)
    IN
    IF n = "err" THEN Err("decoder error")
    ELSE IF n = "some" THEN Err(TrailingTracker)
    ELSE tracker_response

-----------------------------------------------------------------------------
(* Bounds and inputs *)

MaxFiles == 2     \* entries of a `files` list
MaxTierLen == 2   \* trackers of one tier of an announce-list
MaxPeers == 2     \* elements of an explicit `peers` list
MaxRecords == 2   \* records of a compact peer list
MaxTrail == 2     \* bytes after the first top-level value

\* Bytes that may follow the top-level value: l e x i 0 :
TrailBytes == {108, 101, 120, 105, 48, 58}
Trails == SeqsUpTo(TrailBytes, MaxTrail)

Pieces40 == [j \in 1..40 |-> j]

\* Entries of a `files` list.
FileGood1 == BDict(MkDict("length" :> BInt(100) @@ "path" :> BList(<<BStr(StrA)>>)))
FileGood2 == BDict(MkDict("length" :> BInt(250)
                          @@ "path" :> BList(<<BStr(StrDir), BStr(StrB)>>)))
FileBadUtf8 == BDict(MkDict("length" :> BInt(7)
                            @@ "path" :> BList(<<BStr(StrA), BStr(BadLone)>>)))
FileNoLength == BDict(MkDict("path" :> BList(<<BStr(StrA)>>)))
FilePathInt == BDict(MkDict("length" :> BInt(7) @@ "path" :> BList(<<BInt(1)>>)))
FileItems == {FileGood1, FileGood2, FileBadUtf8, FileNoLength, FilePathInt, BInt(1)}

InfoDoc(r) ==
    MkDict("files" :> r.files @@ "length" :> r.length @@ "name" :> r.name
           @@ "piece length" :> r.piece_length @@ "pieces" :> r.pieces
           @@ "private" :> r.private @@ "source" :> r.source
           @@ "x-unknown" :> r.unknown)

\* Info dictionaries: every combination of the fields' shapes ...
InfoFieldDocs ==
    {InfoDoc(r) : r \in
        [files : {Absent, BInt(1), BList(<<FileGood1>>), BList(<<FileBadUtf8>>)},
         length : {Absent, BInt(350), BStr(StrA)},
         name : {Absent, BStr(StrA), BStr(BadLone), BInt(1)},
         piece_length : {Absent, BInt(16384), BStr(StrA)},
         pieces : {Absent, BStr(Pieces40), BInt(1)},
         private : {Absent, BInt(0), BInt(2), BStr(StrA)},
         source : {Absent, BStr(StrB), BStr(BadTruncated), BInt(1)},
         unknown : {Absent, BInt(7)}]}

\* ... and every `files` list in otherwise well-formed dictionaries.
InfoFilesDocs ==
    {InfoDoc(r) : r \in
        [files : {BList(l) : l \in SeqsUpTo(FileItems, MaxFiles)},
         length : {Absent, BInt(350)},
         name : {BStr(StrEAcute)},
         piece_length : {BInt(16384)},
         pieces : {BStr(Pieces40)},
         private : {Absent, BInt(1)},
         source : {Absent, BStr(StrB)},
         unknown : {Absent}]}

InfoDocs == InfoFieldDocs \cup InfoFilesDocs

\* BInfo values built directly (the struct's fields are public).
FileA == [length |-> 100, path |-> <<StrA>>]
InfoValues ==
    [files : {None, Some(<<>>), Some(<<FileA>>)},
     length : {None, Some(350)},
     name : {StrA},
     piece_size : {16384},
     pieces : {<<>>, Pieces40},
     private : {None, Some(FALSE), Some(TRUE)},
     source : {None, Some(StrB)}]

\* Info dictionaries inside a metainfo document.
InfoSingle == BDict(MkDict("length" :> BInt(350) @@ "name" :> BStr(StrA)
                           @@ "piece length" :> BInt(16384)
                           @@ "pieces" :> BStr(Pieces40)))
InfoMulti == BDict(MkDict("files" :> BList(<<FileGood1, FileGood2>>)
                          @@ "name" :> BStr(StrDir)
                          @@ "piece length" :> BInt(16384)
                          @@ "pieces" :> BStr(Pieces40)
                          @@ "private" :> BInt(1)))
InfoBoth == BDict(MkDict("files" :> BList(<<FileGood1>>) @@ "length" :> BInt(100)
                         @@ "name" :> BStr(StrA)
                         @@ "piece length" :> BInt(16384)
                         @@ "pieces" :> BStr(Pieces40)))
InfoBadPath == BDict(MkDict("files" :> BList(<<FileGood1, FileBadUtf8>>)
                            @@ "name" :> BStr(StrA)
                            @@ "piece length" :> BInt(16384)
                            @@ "pieces" :> BStr(Pieces40)))

MetainfoDoc(r) ==
    BDict(MkDict("announce" :> r.announce @@ "announce-list" :> r.announce_list
                 @@ "comment" :> r.comment @@ "created by" :> r.created_by
                 @@ "creation date" :> r.creation_date
                 @@ "encoding" :> r.encoding @@ "info" :> r.info
                 @@ "x-unknown" :> r.unknown))

\* Trackers of a tier, tiers of an announce-list.
TierEntries == {BStr(StrUrlA), BStr(StrUrlB), BStr(BadLone), BInt(1)}
TierItems == {BInt(1), BList(<<BInt(1)>>)}
             \cup {BList(l) : l \in SeqsUpTo(TierEntries, MaxTierLen)}
\* Announce-lists of no, one and two tiers.
AnnounceLists == {BList(<<>>)} \cup {BList(<<a>>) : a \in TierItems}
                 \cup {BList(<<a, b>>) : a, b \in TierItems}

EncodingValues ==
    {BStr(StrUtf8Lower), BStr(StrUtf8Upper), BStr(StrUtf8Mixed), BStr(StrIso),
     BStr(StrUtf8NoDash), BStr(<<>>), BStr(BadLone), BInt(1), BList(<<>>)}

\* Metainfo documents: every combination of the fields' shapes ...
MetainfoFieldDocs ==
    {MetainfoDoc(r) : r \in
        [announce : {Absent, BStr(StrUrlA), BStr(BadLone), BInt(1)},
         announce_list : {Absent, BInt(1), BList(<<BList(<<BStr(StrUrlA)>>)>>),
                          BList(<<BList(<<BStr(BadLone)>>)>>)},
         comment : {Absent, BStr(StrEAcute), BStr(BadTruncated)},
         created_by : {Absent, BInt(1)},
         creation_date : {Absent, BInt(1700000000), BStr(StrA)},
         encoding : {Absent} \cup EncodingValues,
         info : {Absent, BInt(1), InfoSingle, InfoMulti, InfoBoth, InfoBadPath},
         unknown : {Absent, BStr(StrA)}]}

\* ... and every announce-list in otherwise well-formed documents.
MetainfoTierDocs ==
    {MetainfoDoc(r) : r \in
        [announce : {BStr(StrUrlA)},
         announce_list : AnnounceLists,
         comment : {Absent},
         created_by : {Absent},
         creation_date : {Absent},
         encoding : {Absent},
         info : {InfoSingle, InfoBadPath},
         unknown : {Absent}]}

\* Documents that are followed by more bytes.
MetainfoTrailDocs ==
    {MetainfoDoc(r) : r \in
        [announce : {BStr(StrUrlA)},
         announce_list : {Absent, BList(<<BList(<<BStr(StrUrlA)>>)>>),
                          BList(<<BList(<<BStr(BadLone)>>)>>)},
         comment : {Absent},
         created_by : {Absent},
         creation_date : {Absent},
         encoding : {Absent, BStr(StrUtf8Mixed), BStr(StrIso), BInt(1)},
         info : {InfoSingle, InfoMulti, InfoBoth},
         unknown : {Absent}]}

\* Documents that carry keys the decoder does not know: "x-unknown" and
\* "url-list", with values of every type.
UnknownValues == {BInt(7), BStr(BadLone), BList(<<BStr(StrUrlA)>>), InfoSingle}
MetainfoUnknownDocs ==
    {BDict(MetainfoDoc(r).d @@ MkDict("url-list" :> u)) :
        u \in {Absent} \cup UnknownValues,
        r \in [announce : {BStr(StrUrlA), BInt(1)},
               announce_list : {Absent, BList(<<BList(<<BStr(StrUrlA)>>)>>)},
               comment : {Absent, BInt(1)},
               created_by : {Absent},
               creation_date : {Absent},
               encoding : {Absent, BStr(StrUtf8Upper), BStr(StrIso)},
               info : {InfoSingle, InfoBoth},
               unknown : UnknownValues]}

Unparsable == [t |-> "unparsable"]
EmptyInput == [t |-> "empty"]

\* Compact records: 127.0.0.1:6881, 10.0.0.2:80 and 255.255.255.255:65535;
\* the bytes 1..18 (port 4370) and [::1]:6881.
V4Records == {<<127, 0, 0, 1, 26, 225>>, <<10, 0, 0, 2, 0, 80>>,
              <<255, 255, 255, 255, 255, 255>>}
V6RecordA == [j \in 1..18 |-> j]
V6RecordB == [j \in 1..18 |-> IF j < 16 THEN 0 ELSE IF j = 16 THEN 1
                              ELSE IF j = 17 THEN 26 ELSE 225]
V6Records == {V6RecordA, V6RecordB}

RECURSIVE Concat(_)
Concat(ss) == IF ss = <<>> THEN <<>> ELSE Head(ss) \o Concat(Tail(ss))

\* Byte strings made of whole records followed by the first `cut` bytes of
\* one more.
CompactBytes(records, size) ==
    {Concat(rs) \o SubSeq(r, 1, cut) :
        rs \in SeqsUpTo(records, MaxRecords), r \in records, cut \in 0..(size - 1)}

\* Elements of an explicit `peers` list.
PeerObj(ip, id, port) ==
    BPairs(<<Pair("ip", ip), Pair("peer id", id), Pair("port", port)>>)
PeerA == PeerObj(BStr(StrIp1), BStr(StrIdA), BInt(6881))
PeerB == PeerObj(BStr(StrIp2), BStr(StrIdB), BInt(6882))
PeerV6 == PeerObj(BStr(StrIp6), BStr(StrIdA), BInt(0))
PeerBadIp == PeerObj(BStr(StrNoIp), BStr(StrIdA), BInt(6881))
PeerBigPort == PeerObj(BStr(StrIp1), BStr(StrIdA), BInt(65536 + 6881))
PeerNegPort == PeerObj(BStr(StrIp1), BStr(StrIdA), BInt(-1))
PeerNoPort == BPairs(<<Pair("ip", BStr(StrIp1)), Pair("peer id", BStr(StrIdA))>>)
PeerExtraKey == BPairs(<<Pair("ip", BStr(StrIp1)), Pair("peer id", BStr(StrIdA)),
                         Pair("port", BInt(6881)), Pair("x-unknown", BInt(1))>>)
PeerItems == {PeerA, PeerB, PeerV6, PeerBadIp, PeerBigPort, PeerNegPort,
              PeerNoPort, PeerExtraKey, BInt(1)}

\* The keys of a tracker response in byte order, and the same with `peers`
\* and `peers6` exchanged.
KeyOrders == {<<"complete", "incomplete", "interval", "peers", "peers6", "x-unknown">>,
              <<"complete", "incomplete", "interval", "peers6", "peers", "x-unknown">>}

\* The pairs of r's present keys in the order `order`.
RECURSIVE PairsOf(_, _, _)
PairsOf(r, order, j) ==
    IF j > Len(order) THEN <<>>
    ELSE IF r[order[j]].t = "absent" THEN PairsOf(r, order, j + 1)
    ELSE <<Pair(order[j], r[order[j]])>> \o PairsOf(r, order, j + 1)

TrackerDoc(r, order) ==
    BPairs(PairsOf("complete" :> r.complete @@ "incomplete" :> r.incomplete
                   @@ "interval" :> r.interval @@ "peers" :> r.peers
                   @@ "peers6" :> r.peers6 @@ "x-unknown" :> r.unknown,
                   order, 1))

V4One == <<127, 0, 0, 1, 26, 225>>
V4Two == <<127, 0, 0, 1, 26, 225, 10, 0, 0, 2, 0, 80>>

\* Tracker responses: every combination of the fields' shapes ...
TrackerFieldDocs ==
    {TrackerDoc(r, o) : o \in KeyOrders, r \in
        [complete : {Absent, BInt(5), BStr(StrA)},
         incomplete : {Absent, BInt(3)},
         interval : {Absent, BInt(1800), BInt(-1)},
         peers : {Absent, BInt(1), BPairs(<<>>), BStr(<<>>), BStr(V4One),
                  BStr(V4Two), BStr(V4One \o <<9>>), BList(<<>>),
                  BList(<<PeerA, PeerB>>), BList(<<PeerB, PeerBadIp>>)},
         peers6 : {Absent, BInt(1), BStr(<<>>), BStr(V6RecordB),
                   BStr(V6RecordA \o V6RecordB), BStr(SubSeq(V6RecordA, 1, 17))},
         unknown : {Absent, BInt(1)}]}

\* ... and every explicit peers list in otherwise well-formed responses.
TrackerPeerDocs ==
    {TrackerDoc(r, o) : o \in KeyOrders, r \in
        [complete : {Absent},
         incomplete : {Absent},
         interval : {BInt(1800)},
         peers : {BList(l) : l \in SeqsUpTo(PeerItems, MaxPeers)},
         peers6 : {Absent, BStr(V6RecordB)},
         unknown : {Absent}]}

\* Responses that are followed by more bytes.
TrackerTrailDocs ==
    {TrackerDoc(r, o) : o \in KeyOrders, r \in
        [complete : {Absent, BInt(5)},
         incomplete : {Absent},
         interval : {BInt(1800)},
         peers : {BStr(V4One), BList(<<PeerA, PeerB>>), BList(<<PeerExtraKey>>),
                  BInt(1)},
         peers6 : {Absent, BStr(V6RecordB)},
         unknown : {Absent, BInt(1)}]}

\* BInfo values for the derived sizes: pieces of 0, 19, 20, 40 and 59 bytes,
\* piece sizes and lengths that are small, negative and the largest isize.
WideLengths == {WOf(100), WOf(250), WOf(-5), IsizeMax}
WideFile(length) == [length |-> length, path |-> <<StrA>>]
DerivedInfos ==
    [files : {None} \cup {Some([j \in 1..Len(l) |-> WideFile(l[j])]) :
                             l \in SeqsUpTo(WideLengths, MaxFiles)},
     length : {None, Some(WOf(350)), Some(IsizeMax)},
     name : {StrA},
     piece_size : {WOf(16384), WOf(-5), IsizeMax},
     pieces : {[j \in 1..n |-> j] : n \in {0, 19, 20, 40, 59}},
     private : {None},
     source : {None}]

\* Documents a torrent is built from, and the 20 bytes the random generator
\* may give: the letters A..T, and the multiples of 12.
InfoSourced == BDict(MkDict("length" :> BInt(350) @@ "name" :> BStr(StrEAcute)
                            @@ "piece length" :> BInt(16384)
                            @@ "pieces" :> BStr(Pieces40)
                            @@ "private" :> BInt(0) @@ "source" :> BStr(StrB)))
TorrentDocs ==
    {MetainfoDoc(r) : r \in
        [announce : {BStr(StrUrlA)},
         announce_list : {Absent, BList(<<BList(<<BStr(StrUrlA)>>)>>)},
         comment : {Absent},
         created_by : {Absent},
         creation_date : {Absent},
         encoding : {Absent},
         info : {InfoSingle, InfoMulti, InfoSourced, InfoBoth},
         unknown : {Absent}]}
\* config::NetworkSettings { ip: None, port: 6000 }
NetworkPort == 6000
RandomPeerIds == {[j \in 1..20 |-> 64 + j], [j \in 1..20 |-> 12 * j]}

\* Dictionaries and keys the field helpers are called on.
LookupValues == {Absent, BStr(StrA), BStr(StrEAcute), BStr(<<>>), BStr(BadLone),
                 BStr(BadTruncated), BInt(1), BList(<<BStr(StrA)>>), InfoSingle}
Lookups ==
    {[t |-> "lookup", d |-> MkDict("comment" :> v @@ "name" :> w), key |-> key] :
        v, w \in LookupValues, key \in {"comment", "name", "source"}}

-----------------------------------------------------------------------------
(* The state machine *)

Idle ==
    /\ result = NoResult
    /\ hashDict = None
    /\ idx = 0
    /\ acc = TrackerAcc0
    /\ decoded = NoResult
    /\ derived = DerivedNone
    /\ torrent = None
    /\ request = None

\* BInfo::from_bencode_dict is about to be called on an info dictionary.
InitInfo ==
    /\ mode = "info"
    /\ input \in {BDict(d) : d \in InfoDocs}
    /\ rest = <<>>
    /\ pc = "start"
    /\ info = None
    /\ Idle

\* compute_hash is about to be called on a BInfo built directly.
InitHash ==
    /\ mode = "hash"
    /\ input = Absent
    /\ rest = <<>>
    /\ pc = "decoded"
    /\ info \in {Some(i) : i \in InfoValues}
    /\ Idle

\* BMetainfo::from_bytes is about to be called.
InitMetainfo ==
    /\ mode = "metainfo"
    /\ \/ /\ input \in MetainfoFieldDocs \cup MetainfoTierDocs
                       \cup MetainfoUnknownDocs
                       \cup {Unparsable, BInt(1), BList(<<>>)}
          /\ rest = <<>>
       \/ /\ input \in MetainfoTrailDocs \cup {Unparsable, BInt(1)}
          /\ rest \in Trails \ {<<>>}
    /\ pc = "start"
    /\ info = None
    /\ Idle

\* BTrackerResponse::from_bytes is about to be called.
InitTracker ==
    /\ mode = "tracker"
    /\ \/ /\ input \in TrackerFieldDocs \cup TrackerPeerDocs
                       \cup {Unparsable, EmptyInput, BInt(1), BList(<<>>)}
          /\ rest = <<>>
       \/ /\ input \in TrackerTrailDocs \cup {Unparsable, BInt(1)}
          /\ rest \in Trails \ {<<>>}
    /\ pc = "start"
    /\ info = None
    /\ Idle

\* A compact peer list is about to be parsed.
InitCompact ==
    /\ \/ /\ mode = "compact4"
          /\ input \in {BStr(b) : b \in CompactBytes(V4Records, CompactV4Len)}
       \/ /\ mode = "compact6"
          /\ input \in {BStr(b) : b \in CompactBytes(V6Records, CompactV6Len)}
    /\ rest = <<>>
    /\ pc = "start"
    /\ info = None
    /\ Idle

\* The derived sizes of a BInfo are about to be asked for, in a build with or
\* without overflow checks.
InitDerived ==
    /\ mode = "derived"
    /\ input \in [t : {"build"}, overflow_checks : BOOLEAN]
    /\ rest = <<>>
    /\ pc = "start"
    /\ info \in {Some(i) : i \in DerivedInfos}
    /\ Idle

\* A metainfo file is about to be read and a torrent built from it.
InitTorrent ==
    /\ mode = "torrent"
    /\ input \in TorrentDocs
    /\ rest = <<>>
    /\ pc = "start"
    /\ info = None
    /\ Idle

\* A field helper is about to be called.
InitLookup ==
    /\ mode = "util"
    /\ input \in Lookups
    /\ rest = <<>>
    /\ pc = "start"
    /\ info = None
    /\ Idle

Init == InitLookup \/ InitTorrent \/ InitInfo \/ InitHash \/ InitMetainfo \/ InitTracker \/ InitCompact
        \/ InitDerived

InfoDecode ==
    /\ mode = "info"
    /\ pc = "start"
    /\ result' = BInfo_from_bencode_dict(input.d)
    /\ info' = IF result'.k = "ok" THEN Some(result'.v) ELSE None
    /\ pc' = IF result'.k = "ok" THEN "decoded" ELSE "done"
    /\ UNCHANGED <<derived, torrent, request, mode, input, rest, hashDict, idx, acc, decoded>>

ComputeHash ==
    /\ mode \in {"info", "hash"}
    /\ pc = "decoded"
    /\ hashDict' = Some(HashInfoDict(info.v))
    /\ pc' = "done"
    /\ UNCHANGED <<derived, torrent, request, mode, input, rest, result, info, idx, acc, decoded>>

MetainfoFromBytes ==
    /\ mode \in {"metainfo", "torrent"}
    /\ pc = "start"
    /\ result' = BMetainfo_from_bytes(input, rest)
    /\ pc' = "done"
    /\ UNCHANGED <<derived, torrent, request, mode, input, rest, info, hashDict, idx, acc, decoded>>

\* BTrackerResponse::from_bytes up to the loop of decode_bencode_object.
TrackerFirstObject ==
    /\ mode = "tracker"
    /\ pc = "start"
    /\ IF input.t = "unparsable"
       THEN result' = Err("decoder error") /\ pc' = "done"
            /\ UNCHANGED <<idx, decoded>>
       ELSE IF input.t = "empty"
       THEN result' = Err("Tracker sent empty response.") /\ pc' = "done"
            /\ UNCHANGED <<idx, decoded>>
       ELSE IF input.t # "dict"
       THEN decoded' = Err("unexpected token") /\ pc' = "eof"
            /\ UNCHANGED <<idx, result>>
       ELSE idx' = 1 /\ pc' = "loop" /\ UNCHANGED <<result, decoded>>
    /\ UNCHANGED <<derived, torrent, request, mode, input, rest, info, hashDict, acc>>

\* One turn of the loop.
TrackerNextPair ==
    /\ mode = "tracker"
    /\ pc = "loop"
    /\ idx <= Len(input.p)
    /\ \/ LET r == TrackerPair(acc, input.p[idx].key, input.p[idx].val) IN
          IF r.k = "ok"
          THEN acc' = r.v /\ idx' = idx + 1 /\ UNCHANGED <<pc, decoded>>
          ELSE decoded' = r /\ pc' = "eof" /\ UNCHANGED <<acc, idx>>
       \/ /\ OutOfOrder(input.p, idx)
          /\ decoded' = Err(UnsortedKeys)
          /\ pc' = "eof"
          /\ UNCHANGED <<acc, idx>>
    /\ UNCHANGED <<derived, torrent, request, mode, input, rest, result, info, hashDict>>

\* next_pair returned None: the required keys and the merge.
TrackerLoopEnd ==
    /\ mode = "tracker"
    /\ pc = "loop"
    /\ idx > Len(input.p)
    /\ decoded' = TrackerAfterLoop(acc)
    /\ pc' = "eof"
    /\ UNCHANGED <<derived, torrent, request, mode, input, rest, result, info, hashDict, idx, acc>>

\* "Ensure we've hit EOF", and the return.
TrackerEof ==
    /\ mode = "tracker"
    /\ pc = "eof"
    /\ result' = TrackerEnsureEof(decoded, rest)
    /\ pc' = "done"
    /\ UNCHANGED <<derived, torrent, request, mode, input, rest, info, hashDict, idx, acc, decoded>>

ParseCompactV4 ==
    /\ mode = "compact4"
    /\ pc = "start"
    /\ result' = parse_compact_ipv4_peer_list(input.b)
    /\ pc' = "done"
    /\ UNCHANGED <<derived, torrent, request, mode, input, rest, info, hashDict, idx, acc, decoded>>

ParseCompactV6 ==
    /\ mode = "compact6"
    /\ pc = "start"
    /\ result' = parse_compact_ipv6_peer_list(input.b)
    /\ pc' = "done"
    /\ UNCHANGED <<derived, torrent, request, mode, input, rest, info, hashDict, idx, acc, decoded>>

TotalPieceCount ==
    /\ mode = "derived"
    /\ derived.count = NoResult
    /\ derived' = [derived EXCEPT !.count = Ok(total_piece_count(info.v))]
    /\ UNCHANGED <<torrent, request, mode, input, rest, pc, result, info, hashDict, idx, acc, decoded>>

TotalPieceSizeBytes ==
    /\ mode = "derived"
    /\ derived.size = NoResult
    /\ derived' = [derived EXCEPT
                      !.size = total_piece_size_bytes(info.v, input.overflow_checks)]
    /\ UNCHANGED <<torrent, request, mode, input, rest, pc, result, info, hashDict, idx, acc, decoded>>

MetainfoTotalSizeBytes ==
    /\ mode = "derived"
    /\ derived.total = NoResult
    /\ derived' = [derived EXCEPT
                      !.total = metainfo_total_size_bytes(info.v, input.overflow_checks)]
    /\ UNCHANGED <<torrent, request, mode, input, rest, pc, result, info, hashDict, idx, acc, decoded>>

\* mi.announce = local_tracker_url: the caller points the decoded metainfo
\* at another tracker before it builds the torrent.
OverrideAnnounce ==
    /\ mode = "torrent"
    /\ pc = "done"
    /\ result.k = "ok"
    /\ ~torrent.some
    /\ result.v.announce # StrUrlB
    /\ result' = [result EXCEPT !.v.announce = StrUrlB]
    /\ UNCHANGED <<derived, torrent, request, mode, input, rest, pc, info,
                   hashDict, idx, acc, decoded>>

\* BTorrent::new(mi)
TorrentNew ==
    /\ mode = "torrent"
    /\ pc = "done"
    /\ result.k = "ok"
    /\ ~torrent.some
    /\ \E random \in RandomPeerIds :
          LET t == BTorrent_new(result.v, random) IN
          /\ t.k = "ok"
          /\ torrent' = Some(t.v)
    /\ UNCHANGED <<derived, request, mode, input, rest, pc, result, info,
                   hashDict, idx, acc, decoded>>

GetUtf8Value ==
    /\ mode = "util"
    /\ pc = "start"
    /\ result' = get_utf8_value(input.d, input.key)
    /\ pc' = "required"
    /\ UNCHANGED <<derived, torrent, request, mode, input, rest, info,
                   hashDict, idx, acc, decoded>>

GetOptionalUtf8Value ==
    /\ mode = "util"
    /\ pc = "start"
    /\ result' = get_optional_utf8_value(input.d, input.key)
    /\ pc' = "optional"
    /\ UNCHANGED <<derived, torrent, request, mode, input, rest, info,
                   hashDict, idx, acc, decoded>>

\* tracker::announce(client, &torrent, event, &network_settings) up to
\* request.send().  query(&["ip", ip]) and query(&["event", val]) are handed
\* an array of two strings where the first call hands pairs: the builder
\* either takes the two strings as one pair, or refuses them and keeps the
\* error, which send() then returns.
Announce ==
    /\ mode = "torrent"
    /\ torrent.some
    /\ ~request.some
    /\ \E event \in {None} \cup {Some(e) : e \in {"Started", "Completed", "Stopped"}},
          ip \in {None, Some(StrHost)} :
          LET url1 == AnnounceQuery(torrent.v, NetworkPort)
              url2 == IF ip.some THEN QueryAppend(url1, <<<<StrIp, ip.v>>>>, 1)
                      ELSE url1
              url3 == IF event.some
                      THEN QueryAppend(url2, <<<<StrEvent, EventText(event.v)>>>>, 1)
                      ELSE url2
          IN
          \/ request' = Some([event |-> event, ip |-> ip, r |-> Ok(url3)])
          \/ /\ ip.some \/ event.some
             /\ request' = Some([event |-> event, ip |-> ip, r |-> Err(BuilderError)])
    /\ UNCHANGED <<derived, torrent, mode, input, rest, pc, result, info,
                   hashDict, idx, acc, decoded>>

Next ==
    \/ InfoDecode
    \/ ComputeHash
    \/ MetainfoFromBytes
    \/ TrackerFirstObject
    \/ TrackerNextPair
    \/ TrackerLoopEnd
    \/ TrackerEof
    \/ ParseCompactV4
    \/ ParseCompactV6
    \/ TotalPieceCount
    \/ TotalPieceSizeBytes
    \/ MetainfoTotalSizeBytes
    \/ OverrideAnnounce
    \/ TorrentNew
    \/ GetUtf8Value
    \/ GetOptionalUtf8Value
    \/ Announce

Spec == Init /\ [][Next]_vars

-----------------------------------------------------------------------------
(* Properties *)

\* Shapes of an info dictionary, read off the dictionary alone.
PathWellTyped(x) ==
    /\ x.t = "list"
    /\ \A j \in 1..Len(x.l) : x.l[j].t = "bytes" /\ IsUtf8(x.l[j].b)
FileWellTyped(x) ==
    /\ x.t = "dict"
    /\ Get(x.d, "length").t = "int"
    /\ PathWellTyped(Get(x.d, "path"))
RequiredInfoFieldsWellTyped(d) ==
    /\ Get(d, "name").t = "bytes" /\ IsUtf8(Get(d, "name").b)
    /\ Get(d, "piece length").t = "int"
    /\ Get(d, "pieces").t = "bytes"
InfoFieldsWellTyped(d) ==
    /\ RequiredInfoFieldsWellTyped(d)
    /\ "files" \in DOMAIN d =>
          /\ d["files"].t = "list"
          /\ \A j \in 1..Len(d["files"].l) : FileWellTyped(d["files"].l[j])
    /\ "length" \in DOMAIN d => d["length"].t = "int"
    /\ "private" \in DOMAIN d => d["private"].t = "int"
    /\ Get(d, "source").t = "bytes" => IsUtf8(d["source"].b)
BothOrNeither(d) == ("files" \in DOMAIN d) = ("length" \in DOMAIN d)

InfoDecoded == mode = "info" /\ pc # "start"

\* C1 as stated: with both `length` and `files`, or neither, Info decode fails
\* with the conflicting-fields error; with exactly one of them and name, piece
\* length and pieces present and well-typed, it succeeds.
C1_AsStated ==
    InfoDecoded =>
        /\ BothOrNeither(input.d) => result = Err(ConflictingFields)
        /\ (~BothOrNeither(input.d) /\ RequiredInfoFieldsWellTyped(input.d))
               => result.k = "ok"

\* C1 amended: with both `length` and `files`, or neither, Info decode never
\* succeeds, and its error is the conflicting-fields error exactly when every
\* field check before the final one passes; with exactly one of them, decode
\* succeeds exactly when every field check passes.
C1_MutualExclusion ==
    InfoDecoded =>
        /\ BothOrNeither(input.d) => result.k # "ok"
        /\ result = Err(ConflictingFields)
              <=> (BothOrNeither(input.d) /\ InfoFieldsWellTyped(input.d))
        /\ result.k = "ok"
              <=> (~BothOrNeither(input.d) /\ InfoFieldsWellTyped(input.d))

C1_Witness ==
    /\ InfoDecoded
    /\ {"files", "length"} \subseteq DOMAIN input.d
    /\ result = Err(ConflictingFields)

HashFixedKeys == {"name", "piece length", "pieces"}
HashAllKeys == {"files", "length", "private", "source"} \cup HashFixedKeys

\* C3: the dictionary compute_hash encodes never holds both `files` and
\* `length`; for a decoded Info it holds exactly one of them, name, piece
\* length and pieces, `private` iff Info.private is present, `source` iff
\* Info.source is present, and nothing else.
C3_HashDictKeys ==
    hashDict.some =>
        LET keys == DOMAIN hashDict.v IN
        /\ ~({"files", "length"} \subseteq keys)
        /\ mode = "info" =>
              /\ Cardinality(keys \cap {"files", "length"}) = 1
              /\ HashFixedKeys \subseteq keys
              /\ "private" \in keys <=> info.v.private.some
              /\ "source" \in keys <=> info.v.source.some
              /\ keys \subseteq HashAllKeys

C3_Witness ==
    /\ hashDict.some
    /\ info.v.files.some /\ info.v.length.some
    /\ "files" \in DOMAIN hashDict.v

CompactParsed(m) == mode = m /\ pc = "done"

\* C4: a compact IPv4 string of 6n bytes decodes to n peers in order, peer i
\* with the address of bytes 6i..6i+3, the big-endian port of bytes 6i+4..6i+5
\* and an empty peer id; any other length fails with the compact-length error.
C4_CompactV4 ==
    CompactParsed("compact4") =>
        LET b == input.b
            n == Len(b) \div 6
        IN IF Len(b) % 6 = 0
           THEN /\ result.k = "ok"
                /\ Len(result.v) = n
                /\ \A i \in 0..(n - 1) :
                      /\ result.v[i + 1].ip =
                            IpV4(<<b[6 * i + 1], b[6 * i + 2], b[6 * i + 3], b[6 * i + 4]>>)
                      /\ result.v[i + 1].port = 256 * b[6 * i + 5] + b[6 * i + 6]
                      /\ result.v[i + 1].peer_id = <<>>
           ELSE result = Err(BadCompactV4)

C4_Witness ==
    /\ CompactParsed("compact4")
    /\ result.k = "ok"
    /\ Len(result.v) = 2
    /\ result.v[1].port = 6881
    /\ result.v[2].port = 80

\* The value of `key` among the pairs ps, Absent when the key is not there.
RECURSIVE PairVal(_, _)
PairVal(ps, key) ==
    IF ps = <<>> THEN Absent
    ELSE IF Head(ps).key = key THEN Head(ps).val
    ELSE PairVal(Tail(ps), key)

TrackerReturned == mode = "tracker" /\ pc = "done" /\ input.t = "dict"

\* C5: a `peers6` string of 18n bytes decodes to n peers in order, each with
\* the record's 16 address bytes, the big-endian port of its last two bytes
\* and an empty peer id; a `peers6` string of any other length makes the
\* decode of the whole tracker response fail.
C5_CompactV6 ==
    /\ CompactParsed("compact6") =>
          LET b == input.b
              n == Len(b) \div 18
          IN IF Len(b) % 18 = 0
             THEN /\ result.k = "ok"
                  /\ Len(result.v) = n
                  /\ \A i \in 0..(n - 1) :
                        /\ result.v[i + 1].ip =
                              IpV6([j \in 1..16 |-> b[18 * i + j]])
                        /\ result.v[i + 1].port = 256 * b[18 * i + 17] + b[18 * i + 18]
                        /\ result.v[i + 1].peer_id = <<>>
             ELSE result.k = "err"
    /\ TrackerReturned =>
          LET v == PairVal(input.p, "peers6") IN
          (v.t = "bytes" /\ Len(v.b) % 18 # 0) => result.k = "err"

C5_Witness ==
    /\ CompactParsed("compact6")
    /\ result.k = "ok"
    /\ Len(result.v) = 2
    /\ result.v[1].port = 4370
    /\ result.v[2].port = 6881

\* The peers a `peers` value stands for, when it decodes.
PeersOf(v) ==
    IF v.t = "list" THEN PeerListLoop(v.l, 1, <<>>).v
    ELSE parse_compact_ipv4_peer_list(v.b).v

\* C6: when a response holds both `peers` and `peers6`, the decoded list is
\* the peers of `peers` in source order followed by those of `peers6` in
\* source order, whichever key the decoder met first.
C6_MixedPeerOrder ==
    (/\ TrackerReturned
     /\ result.k = "ok"
     /\ PairVal(input.p, "peers").t # "absent"
     /\ PairVal(input.p, "peers6").t # "absent") =>
        LET p4 == PeersOf(PairVal(input.p, "peers"))
            p6 == parse_compact_ipv6_peer_list(PairVal(input.p, "peers6").b).v
        IN /\ result.v.peers = p4 \o p6
           /\ Len(result.v.peers) = Len(p4) + Len(p6)

C6_Witness ==
    /\ TrackerReturned
    /\ result.k = "ok"
    /\ PairVal(input.p, "peers").t = "list"
    /\ PairVal(input.p, "peers6").t = "bytes"
    /\ Len(result.v.peers) = 3
    /\ result.v.peers[1].ip.fam = "v4"
    /\ result.v.peers[3].ip.fam = "v6"

\* The top-level value would decode if nothing followed it.
MetainfoOtherwiseValid == BMetainfo_from_bencode_value(input).k = "ok"
TrackerOtherwiseValid == decoded.k = "ok"

C8_NeverPanics ==
    (mode = "metainfo" /\ pc = "done") => result.k \in {"ok", "err"}

\* Two strings are equal when the case of their ASCII letters is ignored.
UpperByte(b) == IF b >= 97 /\ b <= 122 THEN b - 32 ELSE b
EqIgnoreCase(a, b) ==
    Len(a) = Len(b) /\ \A j \in 1..Len(a) : UpperByte(a[j]) = UpperByte(b[j])

\* The document without its `encoding` key.
WithoutEncoding(v) == BDict([key \in DOMAIN v.d \ {"encoding"} |-> v.d[key]])

MetainfoReturned == mode = "metainfo" /\ pc = "done" /\ rest = <<>> /\ input.t = "dict"

\* C9: for an otherwise valid metainfo dictionary whose `encoding` is a UTF-8
\* string s, decode succeeds iff s is "utf-8" ignoring case, and then stores s.
C9_EncodingValidation ==
    (/\ MetainfoReturned
     /\ Get(input.d, "encoding").t = "bytes"
     /\ IsUtf8(Get(input.d, "encoding").b)
     /\ BMetainfo_from_bencode_value(WithoutEncoding(input)).k = "ok") =>
        LET e == input.d["encoding"].b IN
        /\ result.k = "ok" <=> EqIgnoreCase(e, StrUtf8Lower)
        /\ result.k = "ok" => result.v.encoding = Some(e)

C9_Witness ==
    /\ MetainfoReturned
    /\ Get(input.d, "encoding") = BStr(StrUtf8Mixed)
    /\ result.k = "ok"
    /\ result.v.encoding = Some(StrUtf8Mixed)

\* C10: a present `encoding` value that is not "utf-8" ignoring case, a value
\* that is no byte string or no UTF-8 included, makes decode fail.
C10_EncodingNeverIgnored ==
    (/\ MetainfoReturned
     /\ "encoding" \in DOMAIN input.d
     /\ ~(/\ input.d["encoding"].t = "bytes"
          /\ IsUtf8(input.d["encoding"].b)
          /\ EqIgnoreCase(input.d["encoding"].b, StrUtf8Lower))) =>
        result.k # "ok"

\* The shape "list of lists of byte strings", read off the value alone.
ListOfListsOfStrings(x) ==
    /\ x.t = "list"
    /\ \A j \in 1..Len(x.l) :
          /\ x.l[j].t = "list"
          /\ \A n \in 1..Len(x.l[j].l) : x.l[j].l[n].t = "bytes"

\* The tiers of a well-shaped announce-list, in source order.
TiersInOrder(x) ==
    [j \in 1..Len(x.l) |-> [n \in 1..Len(x.l[j].l) |-> x.l[j].l[n].b]]

\* C11: a decoded Metainfo has announce_list absent iff the `announce-list`
\* key is absent; with the key present decode succeeds only for a list of
\* lists of strings, and then keeps tiers and URLs in source order; any other
\* shape makes decode return an error.
C11_AnnounceListShape ==
    MetainfoReturned =>
        LET x == Get(input.d, "announce-list") IN
        /\ result.k = "ok" =>
              /\ result.v.announce_list = None <=> x.t = "absent"
              /\ x.t # "absent" =>
                    /\ ListOfListsOfStrings(x)
                    /\ result.v.announce_list = Some(TiersInOrder(x))
        /\ (x.t # "absent" /\ ~ListOfListsOfStrings(x)) => result.k = "err"

\* The index of the `peers` pair among the pairs ps, 0 when there is none.
RECURSIVE KeyIdx(_, _, _)
KeyIdx(ps, key, j) ==
    IF j > Len(ps) THEN 0
    ELSE IF ps[j].key = key THEN j
    ELSE KeyIdx(ps, key, j + 1)

\* The loop has taken the `peers` pair: it went past it, or stopped at it
\* with an error of the match arm.
PeersDispatched ==
    /\ mode = "tracker" /\ pc \in {"eof", "done"} /\ input.t = "dict"
    /\ LET n == KeyIdx(input.p, "peers", 1) IN
       /\ n > 0
       /\ idx > n \/ (idx = n /\ decoded.k = "err" /\ decoded # Err(UnsortedKeys))
PeersAccepted == idx > KeyIdx(input.p, "peers", 1)

\* An element of an explicit peers list that holds exactly a parseable ip, a
\* UTF-8 peer id and a port of 16 bits, read off the element alone.
PeerWellFormed(x) ==
    /\ x.t = "dict"
    /\ \A j \in 1..Len(x.p) : x.p[j].key \in {"ip", "peer id", "port"}
    /\ PairVal(x.p, "ip").t = "bytes"
    /\ PairVal(x.p, "ip").b \in {StrIp1, StrIp2, StrIp6}
    /\ PairVal(x.p, "peer id").t = "bytes" /\ IsUtf8(PairVal(x.p, "peer id").b)
    /\ PairVal(x.p, "port").t = "int"
    /\ PairVal(x.p, "port").i \in 0..65535

\* C12: the `peers` value is dispatched on its type: a list is decoded element
\* by element into explicit peers (ip, peer id, port of each dictionary), a
\* byte string as the compact IPv4 form, and an integer or a dictionary makes
\* decode fail with the type-mismatch error.
C12_PeersDispatch ==
    PeersDispatched =>
        LET v == PairVal(input.p, "peers") IN
        /\ v.t \in {"int", "dict"} =>
              /\ decoded = Err(PeersTypeMismatch)
              /\ (pc = "done" /\ rest = <<>>) => result = Err(PeersTypeMismatch)
        /\ v.t = "list" =>
              /\ PeersAccepted <=> \A j \in 1..Len(v.l) : PeerWellFormed(v.l[j])
              /\ PeersAccepted =>
                    /\ acc.peers.some
                    /\ Len(acc.peers.v) = Len(v.l)
                    /\ \A j \in 1..Len(v.l) :
                          /\ acc.peers.v[j].ip = IpParse(PairVal(v.l[j].p, "ip").b).v
                          /\ acc.peers.v[j].peer_id = PairVal(v.l[j].p, "peer id").b
                          /\ acc.peers.v[j].port = PairVal(v.l[j].p, "port").i
        /\ v.t = "bytes" =>
              /\ PeersAccepted <=> Len(v.b) % 6 = 0
              /\ ~PeersAccepted => decoded = Err(BadCompactV4)
              /\ PeersAccepted =>
                    /\ acc.peers.some
                    /\ Len(acc.peers.v) = Len(v.b) \div 6
                    /\ \A j \in 1..Len(acc.peers.v) :
                          /\ acc.peers.v[j].ip.fam = "v4"
                          /\ acc.peers.v[j].ip.a = SubSeq(v.b, 6 * j - 5, 6 * j - 2)
                          /\ acc.peers.v[j].peer_id = <<>>

C12_Witness ==
    /\ PeersDispatched /\ pc = "done"
    /\ PairVal(input.p, "peers").t = "dict"
    /\ result = Err(PeersTypeMismatch)

\* An element of an explicit peers list that is well-formed but for the range
\* of its port.
PeerWellFormedButPort(x) ==
    /\ x.t = "dict"
    /\ \A j \in 1..Len(x.p) : x.p[j].key \in {"ip", "peer id", "port"}
    /\ PairVal(x.p, "ip").t = "bytes"
    /\ PairVal(x.p, "ip").b \in {StrIp1, StrIp2, StrIp6}
    /\ PairVal(x.p, "peer id").t = "bytes" /\ IsUtf8(PairVal(x.p, "peer id").b)
    /\ PairVal(x.p, "port").t = "int"
PortOutOfRange(x) == PairVal(x.p, "port").i \notin 0..65535

\* The `peers` list of the response has been taken, every element of it is
\* well-formed but for the range of its port, and some port is out of range.
PortOverflowCase ==
    /\ PeersDispatched
    /\ PairVal(input.p, "peers").t = "list"
    /\ LET l == PairVal(input.p, "peers").l IN
       /\ \A j \in 1..Len(l) : PeerWellFormedButPort(l[j])
       /\ \E j \in 1..Len(l) : PortOutOfRange(l[j])

\* C13 as stated: a port outside 0..65535 is truncated to 16 bits and the peer
\* decodes.
C13_AsStated ==
    PortOverflowCase =>
        LET l == PairVal(input.p, "peers").l IN
        /\ PeersAccepted
        /\ \A j \in 1..Len(l) :
              acc.peers.v[j].port = PairVal(l[j].p, "port").i % 65536

\* C13 amended: a port outside 0..65535 is not truncated: the peer does not
\* decode, and decode of the response fails with the number error of `port`.
C13_PortRange ==
    PortOverflowCase =>
        /\ ~PeersAccepted
        /\ decoded = ErrKey(NumberOutOfRange, "port")
        /\ pc = "done" => result.k = "err"

C13_Witness ==
    /\ PortOverflowCase /\ pc = "done"
    /\ \E j \in 1..Len(PairVal(input.p, "peers").l) :
          PairVal(PairVal(input.p, "peers").l[j].p, "port").i = 65536 + 6881
    /\ result = ErrKey(NumberOutOfRange, "port")

\* The pairs come in the byte order of their keys.
KeysSorted(ps) == \A j \in 2..Len(ps) : ~OutOfOrder(ps, j)

\* Validity of the values of a response, read off the pairs alone.
CountValid(x) == x.t = "int" /\ x.i >= 0
PeersValid(x) ==
    \/ x.t = "list" /\ \A j \in 1..Len(x.l) : PeerWellFormed(x.l[j])
    \/ x.t = "bytes" /\ Len(x.b) % 6 = 0
Peers6Valid(x) == x.t = "bytes" /\ Len(x.b) % 18 = 0
OptionalValid(ps, key) == PairVal(ps, key).t = "absent" \/ CountValid(PairVal(ps, key))
RequiredValid(ps) ==
    /\ CountValid(PairVal(ps, "interval"))
    /\ PeersValid(PairVal(ps, "peers"))
OthersValid(ps) ==
    /\ OptionalValid(ps, "complete")
    /\ OptionalValid(ps, "incomplete")
    /\ PairVal(ps, "peers6").t = "absent" \/ Peers6Valid(PairVal(ps, "peers6"))
    /\ \A j \in 1..Len(ps) :
          ps[j].key \in {"complete", "incomplete", "interval", "peers", "peers6"}

\* The optional count of the decoded response matches the key of the source.
OptionalKept(field, x) ==
    IF x.t = "absent" THEN field = None ELSE field = Some(x.i)

TrackerDecoded == TrackerReturned /\ rest = <<>>

\* C14 as stated: decode fails when `interval` or `peers` is absent; when both
\* are present and valid it succeeds, with complete and incomplete absent
\* exactly when their keys are absent.
C14_AsStated ==
    TrackerDecoded =>
        /\ (PairVal(input.p, "interval").t = "absent"
            \/ PairVal(input.p, "peers").t = "absent") => result.k = "err"
        /\ RequiredValid(input.p) =>
              /\ result.k = "ok"
              /\ result.v.complete = None <=> PairVal(input.p, "complete").t = "absent"
              /\ result.v.incomplete = None <=> PairVal(input.p, "incomplete").t = "absent"

\* C14 amended: decode fails when `interval` or `peers` is absent, `peers6`
\* without `peers` included; decode succeeds only if `interval` and `peers`
\* are present and valid and every other pair is valid too (complete and
\* incomplete non-negative integers, peers6 a compact IPv6 string, no other
\* key), and it does succeed then when the keys are sorted; a decoded response
\* has complete and incomplete absent exactly when their keys are absent, and
\* the integers of the source otherwise.
C14_RequiredAndOptional ==
    TrackerDecoded =>
        /\ (PairVal(input.p, "interval").t = "absent"
            \/ PairVal(input.p, "peers").t = "absent") => result.k = "err"
        /\ result.k = "ok" => RequiredValid(input.p) /\ OthersValid(input.p)
        /\ (RequiredValid(input.p) /\ OthersValid(input.p) /\ KeysSorted(input.p))
              => result.k = "ok"
        /\ result.k = "ok" =>
              /\ OptionalKept(result.v.complete, PairVal(input.p, "complete"))
              /\ OptionalKept(result.v.incomplete, PairVal(input.p, "incomplete"))
              /\ result.v.interval = PairVal(input.p, "interval").i

C14_Witness ==
    /\ TrackerDecoded
    /\ PairVal(input.p, "interval") = BInt(1800)
    /\ PairVal(input.p, "peers").t = "absent"
    /\ Peers6Valid(PairVal(input.p, "peers6"))
    /\ Len(input.p) = 2
    /\ result = ErrKey("missing field", "peers")

\* The keys BMetainfo::from_bencode_value looks up.
MetainfoKeys == {"announce", "announce-list", "comment", "created by",
                 "creation date", "encoding", "info"}

\* The document without the keys outside the recognised set.
WithoutUnknown(v) == BDict([key \in DOMAIN v.d \cap MetainfoKeys |-> v.d[key]])

HasUnknownKey == MetainfoReturned /\ ~(DOMAIN input.d \subseteq MetainfoKeys)

\* C15: a metainfo dictionary with keys outside the recognised set decodes to
\* the outcome of the same dictionary without them: the same error, or the
\* same Metainfo.
C15_UnknownKeysIgnored ==
    HasUnknownKey => result = BMetainfo_from_bencode_value(WithoutUnknown(input))

C15_Witness ==
    /\ HasUnknownKey
    /\ {"x-unknown", "url-list"} \subseteq DOMAIN input.d
    /\ input.d["url-list"].t = "dict"
    /\ result.k = "ok"
    /\ result.v.comment = None

\* The exact sum of the lengths of the files.
RECURSIVE ExactSum(_)
ExactSum(files) ==
    IF files = <<>> THEN WOf(0)
    ELSE WAdd(Head(files).length, ExactSum(Tail(files)))

\* The size the claim gives a BInfo: the sum of the file lengths when `files`
\* is present, else `length` when present, else 0.
ExpectedTotal(i) ==
    IF i.files.some THEN ExactSum(i.files.v)
    ELSE IF i.length.some THEN i.length.v
    ELSE WOf(0)

\* C16: for every Info, total_piece_count is floor(len(pieces) / 20),
\* total_piece_size_bytes is piece_size * total_piece_count, and
\* metainfo_total_size_bytes is the sum of the file lengths when `files` is
\* present, else `length` when present, else 0.
C16_DerivedArithmetic ==
    mode = "derived" =>
        LET n == CHOOSE c \in 0..Len(info.v.pieces) :
                    20 * c <= Len(info.v.pieces) /\ Len(info.v.pieces) < 20 * (c + 1)
        IN
        /\ derived.count # NoResult => derived.count = Ok(n)
        /\ derived.size # NoResult => derived.size = Ok(WTimes(info.v.piece_size, n))
        /\ derived.total # NoResult => derived.total = Ok(ExpectedTotal(info.v))

\* The value of an upper-case hexadecimal digit, -1 for any other byte.
HexValue(c) ==
    IF c >= 48 /\ c <= 57 THEN c - 48
    ELSE IF c >= 65 /\ c <= 70 THEN c - 55
    ELSE -1

\* The bytes a percent-encoded text stands for; <<-1>> when the text holds a
\* byte that is neither a letter, a digit nor the start of a "%XX".
RECURSIVE PercentDecode(_, _)
PercentDecode(text, p) ==
    IF p > Len(text) THEN <<>>
    ELSE IF IsAsciiAlphanumeric(text[p]) THEN <<text[p]>> \o PercentDecode(text, p + 1)
    ELSE IF /\ text[p] = 37 /\ p + 2 <= Len(text)
            /\ HexValue(text[p + 1]) >= 0 /\ HexValue(text[p + 2]) >= 0
    THEN <<16 * HexValue(text[p + 1]) + HexValue(text[p + 2])>>
         \o PercentDecode(text, p + 3)
    ELSE <<-1>>

\* The number of bytes of a text that are letters or digits.
RECURSIVE PlainCount(_)
PlainCount(bytes) ==
    IF bytes = <<>> THEN 0
    ELSE (IF IsAsciiAlphanumeric(Head(bytes)) THEN 1 ELSE 0) + PlainCount(Tail(bytes))

\* C17: a Torrent holds the SHA-1 digest of the encoding of the Info it owns,
\* the percent-encoding of those 20 bytes (letters and digits as they are,
\* every other byte as %XX), and counters that are 0; the Info it owns is the
\* one decoded from the file, so the cached hash stays the hash of its Info.
C17_TorrentHashCached ==
    torrent.some =>
        LET t == torrent.v
            decoded_info == BMetainfo_from_bencode_value(input).v.info
        IN
        /\ t.metainfo.info = decoded_info
        /\ t.info_hash = Sha1(Encode(BDict(HashInfoDict(decoded_info))))
        /\ Len(t.info_hash) = 20
        /\ PercentDecode(t.encoded_info_hash, 1) = t.info_hash
        /\ Len(t.encoded_info_hash) = 60 - 2 * PlainCount(t.info_hash)
        /\ t.uploaded = 0 /\ t.downloaded = 0 /\ t.left = 0

C17_Witness ==
    /\ torrent.some
    /\ torrent.v.metainfo.announce = StrUrlB
    /\ torrent.v.metainfo.info.files.some
    /\ SubSeq(torrent.v.encoded_info_hash, 1, 6) = <<37, 67, 55, 97, 100, 37>>

\* The value the helper looked up, Absent for a missing key.
Looked == IF input.key \in DOMAIN input.d THEN input.d[input.key] ELSE Absent

\* C18: get_optional_utf8_value returns absent for a missing key and for a
\* value that is no byte string, the string for a UTF-8 byte string, and the
\* invalid-UTF-8 error for any other byte string; get_utf8_value returns the
\* same but for a missing key, its missing-field error, and a value that is no
\* byte string, its wrong-type error.
C18_FieldHelpers ==
    mode = "util" =>
        /\ pc = "optional" =>
              /\ Looked.t \notin {"bytes"} => result = Ok(None)
              /\ (Looked.t = "bytes" /\ IsUtf8(Looked.b)) => result = Ok(Some(Looked.b))
              /\ (Looked.t = "bytes" /\ ~IsUtf8(Looked.b)) =>
                    result = ErrKey("Field '{}' must be a valid UTF-8 string", input.key)
        /\ pc = "required" =>
              /\ Looked.t = "absent" => result = ErrKey("Missing field '{}'", input.key)
              /\ Looked.t \in {"int", "list", "dict"} =>
                    result = ErrKey("Field '{}' must be a byte string", input.key)
              /\ (Looked.t = "bytes" /\ IsUtf8(Looked.b)) => result = Ok(Looked.b)
              /\ (Looked.t = "bytes" /\ ~IsUtf8(Looked.b)) =>
                    result = ErrKey("Field '{}' must be a valid UTF-8 string", input.key)

C18_Witness ==
    /\ mode = "util" /\ pc = "optional"
    /\ input.key = "name"
    /\ Looked = BStr(BadTruncated)
    /\ result = ErrKey("Field '{}' must be a valid UTF-8 string", "name")

\* The part of a text before the first byte `sep` from p on, and the position
\* after that byte (past the end when there is none).
RECURSIVE UntilSep(_, _, _)
UntilSep(text, p, sep) ==
    IF p > Len(text) \/ text[p] = sep THEN <<>>
    ELSE <<text[p]>> \o UntilSep(text, p + 1, sep)

\* The parameters of a query, as a receiver splits it: at every &, and each
\* part at its first =.
RECURSIVE QueryParams(_, _)
QueryParams(query, p) ==
    IF p > Len(query) THEN <<>>
    ELSE LET part == UntilSep(query, p, 38)
             name == UntilSep(part, 1, 61)
         IN <<[name |-> name, value |-> SubSeq(part, Len(name) + 2, Len(part))]>>
            \o QueryParams(query, p + Len(part) + 1)

\* The query of a url: what follows its first ?.
QueryOf(url) == SubSeq(url, Len(UntilSep(url, 1, 63)) + 2, Len(url))

Occurrences(params, name) == {j \in 1..Len(params) : params[j].name = name}
HasOnce(params, name, value) ==
    /\ Cardinality(Occurrences(params, name)) = 1
    /\ \A j \in Occurrences(params, name) : params[j].value = value

\* C19: the announce request carries info_hash and peer_id as two separate
\* query parameters, each name once and with its own percent-encoded value,
\* together with port, uploaded, downloaded and left; `event` is a parameter
\* iff an event is supplied.
C19_AnnounceQuery ==
    (request.some /\ request.v.r.k = "ok") =>
        LET params == QueryParams(QueryOf(request.v.r.v), 1) IN
        /\ HasOnce(params, StrInfoHash, torrent.v.encoded_info_hash)
        /\ HasOnce(params, StrPeerId, torrent.v.encoded_peer_id)
        /\ HasOnce(params, StrPort, Digits(NetworkPort))
        /\ HasOnce(params, StrUploaded, <<48>>)
        /\ HasOnce(params, StrDownloaded, <<48>>)
        /\ HasOnce(params, StrLeft, <<48>>)
        /\ Occurrences(params, StrEvent) # {} <=> request.v.event.some

\* The info dictionary d with key set to x, or without it when x is Absent.
WithKey(d, key, x) ==
    IF x = Absent THEN [k \in DOMAIN d \ {key} |-> d[k]]
    ELSE [k \in DOMAIN d \cup {key} |-> IF k = key THEN x ELSE d[k]]

\* The info dictionaries that differ from d only in a key outside the seven
\* of the decoder, in which nonzero integer `private` holds, or in a `source`
\* value that is no byte string.
OtherUnknowns == {Absent, BInt(7), BStr(BadLone), BList(<<BInt(1)>>)}
OtherPrivates(d) ==
    IF Get(d, "private").t = "int" /\ Get(d, "private").i # 0
    THEN {BInt(1), BInt(2), BInt(-1)} ELSE {Get(d, "private")}
OtherSources(d) ==
    IF Get(d, "source").t \in {"int", "list", "dict"}
    THEN {BInt(1), BList(<<>>), BDict(<<>>)} ELSE {Get(d, "source")}
HashVariants(d) ==
    {WithKey(WithKey(WithKey(d, "x-unknown", u), "private", pr), "source", src) :
        u \in OtherUnknowns, pr \in OtherPrivates(d), src \in OtherSources(d)}

\* C20: info dictionaries that differ only in keys the decoder does not know,
\* in which nonzero integer `private` holds, or in a `source` value that is
\* no byte string, decode alike, and when they decode compute_hash encodes
\* the same dictionary for them, hence gives the same info-hash.
C20_HashOfTypedFields ==
    (mode = "info" /\ pc = "done") =>
        \A d2 \in HashVariants(input.d) :
            LET r2 == BInfo_from_bencode_dict(d2) IN
            /\ (r2.k = "ok") = (result.k = "ok")
            /\ result.k = "ok" =>
                  /\ r2.v = info.v
                  /\ Encode(BDict(HashInfoDict(r2.v))) = Encode(BDict(hashDict.v))

C20_Witness ==
    /\ mode = "info" /\ pc = "done"
    /\ result.k = "ok"
    /\ "x-unknown" \in DOMAIN input.d
    /\ Get(input.d, "private") = BInt(2)
    /\ Get(input.d, "source") = BInt(1)
    /\ hashDict.v["private"] = BInt(1)
    /\ "source" \notin DOMAIN hashDict.v

\* The keys the two decoders of tracker.rs have a match arm for.
TrackerKeys == {"peers", "peers6", "interval", "complete", "incomplete"}
PeerKeys == {"ip", "peer id", "port"}

\* The first of the pairs ps from j on whose key is outside `keys`, 0 when
\* there is none.
RECURSIVE FirstOutside(_, _, _)
FirstOutside(ps, keys, j) ==
    IF j > Len(ps) THEN 0
    ELSE IF ps[j].key \notin keys THEN j
    ELSE FirstOutside(ps, keys, j + 1)

\* Validity of one pair of a response and of one pair of an explicit peer,
\* read off the pair alone.
TrackerPairValid(pr) ==
    IF pr.key = "peers" THEN PeersValid(pr.val)
    ELSE IF pr.key = "peers6" THEN Peers6Valid(pr.val)
    ELSE pr.key \in {"interval", "complete", "incomplete"} /\ CountValid(pr.val)
PeerPairValid(pr) ==
    IF pr.key = "ip"
    THEN pr.val.t = "bytes" /\ pr.val.b \in {StrIp1, StrIp2, StrIp6}
    ELSE IF pr.key = "peer id" THEN pr.val.t = "bytes" /\ IsUtf8(pr.val.b)
    ELSE pr.key = "port" /\ pr.val.t = "int" /\ pr.val.i \in 0..65535

\* The pairs before the n-th are valid and the first n are in key order.
ValidBefore(ps, n) ==
    /\ \A j \in 1..(n - 1) : TrackerPairValid(ps[j])
    /\ \A j \in 2..n : ~OutOfOrder(ps, j)

\* The first element of the list l from j on that is not a well-formed peer,
\* 0 when there is none.
RECURSIVE FirstIllFormed(_, _)
FirstIllFormed(l, j) ==
    IF j > Len(l) THEN 0
    ELSE IF ~PeerWellFormed(l[j]) THEN j
    ELSE FirstIllFormed(l, j + 1)

\* The explicit peer dictionaries of the response.
PeerDicts ==
    IF input.t = "dict" /\ PairVal(input.p, "peers").t = "list"
    THEN {x \in {PairVal(input.p, "peers").l[j] :
                    j \in 1..Len(PairVal(input.p, "peers").l)} : x.t = "dict"}
    ELSE {}

UnknownTopKey == input.t = "dict" /\ FirstOutside(input.p, TrackerKeys, 1) > 0
UnknownPeerKey == \E x \in PeerDicts : FirstOutside(x.p, PeerKeys, 1) > 0

\* The first failure of the response is a key outside TrackerKeys: every pair
\* before it is valid and the keys up to it are sorted.
TopKeyFirstFailure ==
    /\ UnknownTopKey
    /\ ValidBefore(input.p, FirstOutside(input.p, TrackerKeys, 1))

\* The first failure of the response is a key outside PeerKeys in an element
\* of the explicit peers list: the pairs before `peers` are valid and sorted,
\* the elements before that one are well-formed, and so are the pairs of the
\* element before the key.
PeerKeyFirstFailure ==
    /\ input.t = "dict"
    /\ LET n == KeyIdx(input.p, "peers", 1) IN
       /\ n > 0
       /\ ValidBefore(input.p, n)
       /\ input.p[n].val.t = "list"
       /\ LET l == input.p[n].val.l
              m == FirstIllFormed(l, 1)
          IN
          /\ m > 0
          /\ l[m].t = "dict"
          /\ LET q == FirstOutside(l[m].p, PeerKeys, 1) IN
             /\ q > 0
             /\ \A j \in 1..(q - 1) : PeerPairValid(l[m].p[j])

\* The key PeerKeyFirstFailure is about.
FirstPeerKeyOutside ==
    LET l == PairVal(input.p, "peers").l
        x == l[FirstIllFormed(l, 1)]
    IN x.p[FirstOutside(x.p, PeerKeys, 1)].key

\* C21 as stated: a tracker response with a top-level key outside
\* {peers, peers6, interval, complete, incomplete}, or with an explicit peer
\* dictionary that has a key outside {ip, peer id, port}, is rejected with an
\* unexpected-field error.
C21_AsStated ==
    (TrackerReturned /\ (UnknownTopKey \/ UnknownPeerKey)) =>
        result.k = "err" /\ result.e = "unexpected field"

\* C21 amended: such a response is always rejected; the error is the
\* unexpected-field error naming the key when that key is the first failure
\* of the response (everything the decoder takes before it is valid and in
\* key order) and no bytes follow the response; Metainfo decode never gives
\* an unexpected-field error, whatever keys the document has.
C21_UnexpectedFields ==
    /\ (TrackerReturned /\ (UnknownTopKey \/ UnknownPeerKey)) => result.k = "err"
    /\ (TrackerReturned /\ rest = <<>> /\ TopKeyFirstFailure) =>
          result = ErrKey("unexpected field",
                          input.p[FirstOutside(input.p, TrackerKeys, 1)].key)
    /\ (TrackerReturned /\ rest = <<>> /\ PeerKeyFirstFailure) =>
          result = ErrKey("unexpected field", FirstPeerKeyOutside)
    /\ (MetainfoReturned /\ HasUnknownKey /\ result.k = "err") =>
          result.e # "unexpected field"

C21_Witness ==
    /\ TrackerReturned /\ rest = <<>>
    /\ TopKeyFirstFailure
    /\ PairVal(input.p, "interval") = BInt(1800)
    /\ PairVal(input.p, "peers") = BList(<<PeerA, PeerB>>)
    /\ PairVal(input.p, "x-unknown") = BInt(1)
    /\ result = ErrKey("unexpected field", "x-unknown")

====
